---- MODULE Spec2Model ----
(***************************************************************************)
(* The poll-edit form reducer of alx-poll (src/lib/utils/poll-edit.ts)     *)
(* and its poll API (app/api/polls) on the store of supabase/migrations.   *)
(*                                                                         *)
(* Encodings                                                               *)
(*   string      a sequence of characters; Null is the one-element         *)
(*               sequence <<"NULL">>, which no text is.                  *)
(*   ISO string  [ms, fmt]: the instant in milliseconds and the way the    *)
(*               text spells it ("Z": 2025-12-31T23:59:59Z, "offset":      *)
(*               ...+00:00 as the store returns it, "ms": ...59.000Z as    *)
(*               Date.prototype.toISOString writes it).                    *)
(*   Date        the instant in milliseconds; NoDate is null.              *)
(*   option id   a positive number; NoId is a missing id.                  *)
(*   index       0-based, as in the source.                                *)
(*   db          the tables polls, poll_options and votes, as sets of rows. *)
(*   reqs        the requests: for each the handler called, its arguments, *)
(*               its locals, its position pc and its response.             *)
(***************************************************************************)
EXTENDS Integers, Sequences, FiniteSets, TLC

VARIABLES poll, formData, now, pc, last, payload, validation, db, reqs,
          isLoading, formErrors, request

vars == <<poll, formData, now, pc, last, payload, validation, db, reqs,
         isLoading, formErrors, request>>

(***************************************************************************)
(* Bounds of the model.                                                    *)
(***************************************************************************)
\* the longest options array addNewOption is applied up to
MaxOptions == 3
\* addNewOption is applied while the highest option_order is below this
MaxNewOrder == 4
\* the most options of a persisted poll, and their highest option_order
MaxPollOptions == 3
MaxOrder == 3
\* the most options of a form handed to validateEditPollForm
MaxFormOptions == 3
\* the clock runs over 0..MaxTime
MaxTime == 2

(***************************************************************************)
(* Strings.                                                                *)
(***************************************************************************)
Null == <<"NULL">>
NoId == 0
NoDate == -1
NullTs == [ms |-> NoDate, fmt |-> "null"]

IsWhitespace(c) == c = " "

RECURSIVE TrimStart(_)
TrimStart(s) ==
    IF s = <<>> THEN <<>>
    ELSE IF IsWhitespace(Head(s)) THEN TrimStart(Tail(s)) ELSE s

RECURSIVE TrimEnd(_)
TrimEnd(s) ==
    IF s = <<>> THEN <<>>
    ELSE IF IsWhitespace(s[Len(s)]) THEN TrimEnd(SubSeq(s, 1, Len(s) - 1)) ELSE s

\* String.prototype.trim
Trim(s) == TrimEnd(TrimStart(s))

LowerChar(c) == IF c = "A" THEN "a" ELSE c

\* String.prototype.toLowerCase
ToLowerCase(s) == [i \in 1..Len(s) |-> LowerChar(s[i])]

\* JavaScript truthiness of a string | null
Truthy(s) == s # Null /\ s # <<>>

\* a || b on string | null operands
OrElse(a, b) == IF Truthy(a) THEN a ELSE b

(***************************************************************************)
(* Dates.                                                                  *)
(***************************************************************************)
\* new Date(isoString)
NewDate(ts) == ts.ms

\* Date.prototype.toISOString
ToISOString(d) == [ms |-> d, fmt |-> "ms"]

(***************************************************************************)
(* Array helpers.                                                          *)
(***************************************************************************)
\* Array.prototype.splice(index, 1) on a copy: the array without the element
RemoveAt(s, index) ==
    SubSeq(s, 1, index) \o SubSeq(s, index + 2, Len(s))

\* Array.prototype.splice(index, 0, x) on a copy
InsertAt(s, index, x) ==
    SubSeq(s, 1, index) \o <<x>> \o SubSeq(s, index + 1, Len(s))

RECURSIVE InsertSorted(_, _)
InsertSorted(sorted, o) ==
    IF sorted = <<>> THEN <<o>>
    ELSE IF o.option_order < Head(sorted).option_order
         THEN <<o>> \o sorted
         ELSE <<Head(sorted)>> \o InsertSorted(Tail(sorted), o)

\* the array left in the order it came in
SortByOrder_Unsorted(s) == s

RECURSIVE SortByOrder(_)
\* Array.prototype.sort((a, b) => a.option_order - b.option_order), stable
SortByOrder(s) ==
    IF s = <<>> THEN <<>>
    ELSE InsertSorted(SortByOrder(SubSeq(s, 1, Len(s) - 1)), s[Len(s)])

SetMax(S) == CHOOSE m \in S : \A x \in S : x <= m

(***************************************************************************)
(* pollToEditForm                                                          *)
(***************************************************************************)
ToFormOption(option) ==
    [id |-> option.id,
     option_text |-> option.option_text,
     option_order |-> option.option_order,
     _isNew |-> FALSE,
     _isDeleted |-> FALSE]

\* as pollToEditForm, a null description or category passed on as it is
pollToEditForm_KeepsNull(p) ==
    [title |-> p.title,
     description |-> p.description,
     category |-> p.category,
     is_active |-> p.is_active,
     allow_multiple_votes |-> p.allow_multiple_votes,
     is_anonymous |-> p.is_anonymous,
     expires_at |-> IF p.expires_at # NullTs THEN NewDate(p.expires_at) ELSE NoDate,
     options |-> [i \in 1..Len(p.poll_options) |->
                    ToFormOption(SortByOrder(p.poll_options)[i])]]

pollToEditForm(p) ==
    [title |-> p.title,
     description |-> OrElse(p.description, <<>>),
     category |-> OrElse(p.category, <<>>),
     is_active |-> p.is_active,
     allow_multiple_votes |-> p.allow_multiple_votes,
     is_anonymous |-> p.is_anonymous,
     expires_at |-> IF p.expires_at # NullTs THEN NewDate(p.expires_at) ELSE NoDate,
     options |-> [i \in 1..Len(p.poll_options) |->
                    ToFormOption(SortByOrder(p.poll_options)[i])]]

\* poll.poll_options.sort(...) sorts the caller's array in place
PollAfterToEditForm(p) ==
    [p EXCEPT !.poll_options = SortByOrder(p.poll_options)]

(***************************************************************************)
(* editFormToUpdate                                                        *)
(***************************************************************************)
\* as PollUpdateOf, the description left untrimmed
PollUpdateOf_NoTrim(f) ==
    [title |-> Trim(f.title),
     description |-> OrElse(f.description, Null),
     category |-> OrElse(Trim(f.category), Null),
     is_active |-> f.is_active,
     allow_multiple_votes |-> f.allow_multiple_votes,
     is_anonymous |-> f.is_anonymous,
     expires_at |-> IF f.expires_at # NoDate THEN ToISOString(f.expires_at) ELSE NullTs]

PollUpdateOf(f) ==
    [title |-> Trim(f.title),
     description |-> OrElse(Trim(f.description), Null),
     category |-> OrElse(Trim(f.category), Null),
     is_active |-> f.is_active,
     allow_multiple_votes |-> f.allow_multiple_votes,
     is_anonymous |-> f.is_anonymous,
     expires_at |-> IF f.expires_at # NoDate THEN ToISOString(f.expires_at) ELSE NullTs]

IsToCreate(option) == option._isNew /\ ~option._isDeleted

\* as IsToUpdate, the deleted flag not looked at
IsToUpdate_KeepsDeleted(option) == ~option._isNew /\ option.id # NoId

IsToUpdate(option) == ~option._isNew /\ ~option._isDeleted /\ option.id # NoId

IsToDelete(option) == option._isDeleted /\ option.id # NoId

CreateEntry(option) ==
    [option_text |-> Trim(option.option_text), option_order |-> option.option_order]

UpdateEntry(option) ==
    [id |-> option.id,
     option_text |-> Trim(option.option_text),
     option_order |-> option.option_order]

IdOf(option) == option.id

ToCreateOf(f) ==
    LET kept == SelectSeq(f.options, IsToCreate)
    IN  [i \in 1..Len(kept) |-> CreateEntry(kept[i])]

ToUpdateOf(f) ==
    LET kept == SelectSeq(f.options, IsToUpdate)
    IN  [i \in 1..Len(kept) |-> UpdateEntry(kept[i])]

ToDeleteOf(f) ==
    LET kept == SelectSeq(f.options, IsToDelete)
    IN  [i \in 1..Len(kept) |-> IdOf(kept[i])]

editFormToUpdate(f) ==
    [pollUpdate |-> PollUpdateOf(f),
     optionUpdates |-> [toCreate |-> ToCreateOf(f),
                        toUpdate |-> ToUpdateOf(f),
                        toDelete |-> ToDeleteOf(f)]]

(***************************************************************************)
(* addNewOption, removeOption, reorderOptions                              *)
(***************************************************************************)
\* as MaxOrderOf, the number of options taken for the highest order
MaxOrderOf_Length(f) == Len(f.options)

\* Math.max(0, ...formData.options.map(o => o.option_order))
MaxOrderOf(f) ==
    SetMax({0} \cup {f.options[i].option_order : i \in 1..Len(f.options)})

\* as NewOption, every added option put first
NewOption_OrderOne(optionText, order) ==
    [id |-> NoId,
     option_text |-> optionText,
     option_order |-> 1,
     _isNew |-> TRUE,
     _isDeleted |-> FALSE]

NewOption(optionText, order) ==
    [id |-> NoId,
     option_text |-> optionText,
     option_order |-> order,
     _isNew |-> TRUE,
     _isDeleted |-> FALSE]

addNewOption(f, optionText) ==
    [f EXCEPT !.options = Append(f.options, NewOption(optionText, MaxOrderOf(f) + 1))]

\* removeOption without the _isNew branch: every option is spliced out
removeOption_AlwaysSplice(f, index) ==
    [f EXCEPT !.options = RemoveAt(f.options, index)]

\* index is an index of formData.options (0-based)
removeOption(f, index) ==
    IF f.options[index + 1]._isNew
    THEN [f EXCEPT !.options = RemoveAt(f.options, index)]
    ELSE [f EXCEPT !.options[index + 1]._isDeleted = TRUE]

NotDeleted(option) == ~option._isDeleted

\* formData.options.filter(o => !o._isDeleted)
ActiveOptions(f) == SelectSeq(f.options, NotDeleted)

\* as Renumber, numbering from 0
Renumber_FromZero(s) == [i \in 1..Len(s) |-> [s[i] EXCEPT !.option_order = i - 1]]

\* newOptions.map((option, index) => ({...option, option_order: index + 1}))
Renumber(s) == [i \in 1..Len(s) |-> [s[i] EXCEPT !.option_order = i]]

\* as MoveOption, the two elements exchanged
MoveOption_Swap(s, fromIndex, toIndex) ==
    [s EXCEPT ![fromIndex + 1] = s[toIndex + 1], ![toIndex + 1] = s[fromIndex + 1]]

\* the two splice calls: take the element at fromIndex out, put it in at toIndex
MoveOption(s, fromIndex, toIndex) ==
    InsertAt(RemoveAt(s, fromIndex), toIndex, s[fromIndex + 1])

\* fromIndex and toIndex are positions among the non-deleted options (0-based)
reorderOptions(f, fromIndex, toIndex) ==
    [f EXCEPT !.options = Renumber(MoveOption(ActiveOptions(f), fromIndex, toIndex))]

(***************************************************************************)
(* validateEditPollForm                                                    *)
(***************************************************************************)
TitleRequired == "Poll title is required"
TwoOptionsRequired == "At least 2 options are required"
NoDuplicates == "Duplicate options are not allowed"
ExpiryInFuture == "Expiry date must be in the future"

\* as IsValidatable, deleted options counted
IsValidatable_CountsDeleted(option) == Trim(option.option_text) # <<>>

\* formData.options.filter(o => !o._isDeleted && o.option_text.trim())
IsValidatable(option) == ~option._isDeleted /\ Trim(option.option_text) # <<>>

ValidatableOptions(f) == SelectSeq(f.options, IsValidatable)

\* as NormalText, letter case kept
NormalText_CaseSensitive(option) == Trim(option.option_text)

NormalText(option) == ToLowerCase(Trim(option.option_text))

\* activeOptions.map(o => o.option_text.trim().toLowerCase())
OptionTexts(f) ==
    [i \in 1..Len(ValidatableOptions(f)) |-> NormalText(ValidatableOptions(f)[i])]

\* new Set(optionTexts).size
UniqueSize(texts) == Cardinality({texts[i] : i \in 1..Len(texts)})

PushIf(errors, cond, message) == IF cond THEN Append(errors, message) ELSE errors

TitleErrors(f) == PushIf(<<>>, Trim(f.title) = <<>>, TitleRequired)

CountErrors(f, errors) == PushIf(errors, Len(ValidatableOptions(f)) < 2, TwoOptionsRequired)

DuplicateErrors(f, errors) ==
    PushIf(errors, Len(OptionTexts(f)) # UniqueSize(OptionTexts(f)), NoDuplicates)

\* as ExpiryErrors, an expiry equal to the current time accepted
ExpiryErrors_Strict(f, t, errors) ==
    PushIf(errors, f.expires_at # NoDate /\ f.expires_at < t, ExpiryInFuture)

\* formData.expires_at && formData.expires_at <= new Date(), at time t
ExpiryErrors(f, t, errors) ==
    PushIf(errors, f.expires_at # NoDate /\ f.expires_at <= t, ExpiryInFuture)

\* as ErrorsOf, stopping at a missing title
ErrorsOf_FirstOnly(f, t) ==
    IF TitleErrors(f) # <<>> THEN TitleErrors(f)
    ELSE ExpiryErrors(f, t, DuplicateErrors(f, CountErrors(f, <<>>)))

ErrorsOf(f, t) == ExpiryErrors(f, t, DuplicateErrors(f, CountErrors(f, TitleErrors(f))))

validateEditPollForm(f, t) ==
    [isValid |-> Len(ErrorsOf(f, t)) = 0, errors |-> ErrorsOf(f, t)]

(***************************************************************************)
(* Inputs.                                                                 *)
(***************************************************************************)
\* the text of the persisted option with id i: i letters, all different
PollText(i) == [k \in 1..i |-> "a"]

Injective(f, D) == \A x, y \in D : x # y => f[x] # f[y]

\* poll_options UNIQUE(poll_id, option_order), option_order > 0: the orders
\* are distinct and positive, with gaps and in any array order
PollOptionLists ==
    UNION {
      { [i \in 1..n |-> [id |-> i,
                         option_text |-> PollText(i),
                         option_order |-> ord[i],
                         votes_count |-> 0]] :
          ord \in {f \in [1..n -> 1..MaxOrder] : Injective(f, 1..n)} } :
      n \in 0..MaxPollOptions }

PollWith(title, description, category, flags, expires_at, poll_options) ==
    [title |-> title,
     description |-> description,
     category |-> category,
     is_active |-> flags[1],
     allow_multiple_votes |-> flags[2],
     is_anonymous |-> flags[3],
     expires_at |-> expires_at,
     poll_options |-> poll_options]

\* polls whose options vary (the option reducers)
SessionPolls ==
    { PollWith(<<"a">>, Null, Null, <<TRUE, FALSE, TRUE>>, NullTs, opts) :
        opts \in PollOptionLists }

TwoOptions ==
    << [id |-> 1, option_text |-> PollText(1), option_order |-> 1, votes_count |-> 0],
       [id |-> 2, option_text |-> PollText(2), option_order |-> 2, votes_count |-> 0] >>

PollTitles == { <<"a">>, <<" ", "a", " ">>, <<"a", " ", "b">> }
PollTexts == { Null, <<>>, <<" ">>, <<"a">>, <<" ", "a">>, <<"a", " ">> }
PollTimestamps ==
    {NullTs} \cup [ms : {1}, fmt : {"Z", "offset", "ms"}]

\* polls whose own fields vary (the conversions)
ConvPolls ==
    { PollWith(t, d, c, fl, e, TwoOptions) :
        t \in PollTitles, d \in PollTexts, c \in {Null, <<" ">>, <<"b">>},
        fl \in [1..3 -> BOOLEAN], e \in PollTimestamps }

NoForm ==
    [title |-> <<>>, description |-> <<>>, category |-> <<>>,
     is_active |-> FALSE, allow_multiple_votes |-> FALSE, is_anonymous |-> FALSE,
     expires_at |-> NoDate, options |-> <<>>]

NoPayload == editFormToUpdate(NoForm)

NoValidation == [isValid |-> FALSE, errors |-> <<>>]

\* no function of the module was called last
NoCall == "none"

\* no fetch of the edit form is in flight
NoRequest == [method |-> "none"]

\* the requests the API handlers serve
Requests == {"r1", "r2"}

\* no rows in the store, as far as the edit form is concerned
NoDb == [polls |-> {}, poll_options |-> {}, votes |-> {}]

\* supabase.auth.getUser() found no user
NoUser == "nobody"

\* no poll row
NoPoll == [id |-> "none"]

\* no request body
NoBody == [title |-> <<>>]

\* data: null of a count query
NoCount == -1

\* the local state of a request no handler has been called for
IdleReq ==
    [kind |-> "none", user |-> NoUser, id |-> "none", optionIds |-> <<>>,
     body |-> NoBody, pc |-> "idle", poll |-> NoPoll, k |-> 0,
     count |-> NoCount, status |-> 0, error |-> "", hasVoted |-> FALSE,
     calls |-> 0, failed |-> FALSE, lateWrite |-> FALSE, after |-> {}]

\* no request has been made
NoReqs == [r \in Requests |-> IdleReq]

\* the texts addNewOption is called with ('' is the default)
AddTexts == { <<>>, <<"b">> }

\* forms handed to validateEditPollForm
FormTitles == { <<>>, <<" ">>, <<" ", "a">> }
FormTexts == { <<>>, <<" ">>, <<"a">>, <<" ", "A">>, <<"b">> }

FormOptionLists ==
    UNION {
      { [i \in 1..n |-> [id |-> i,
                         option_text |-> txt[i],
                         option_order |-> i,
                         _isNew |-> FALSE,
                         _isDeleted |-> del[i]]] :
          txt \in [1..n -> FormTexts], del \in [1..n -> BOOLEAN] } :
      n \in 0..MaxFormOptions }

ValidateForms ==
    { [NoForm EXCEPT !.title = t, !.expires_at = e, !.options = opts] :
        t \in FormTitles, e \in {NoDate} \cup 0..MaxTime, opts \in FormOptionLists }

(***************************************************************************)
(* The state machine.                                                      *)
(***************************************************************************)
InitWith(polls) ==
    /\ poll \in polls
    /\ formData = NoForm
    /\ now = 0
    /\ pc = "start"
    /\ last = NoCall
    /\ payload = NoPayload
    /\ validation = NoValidation
    /\ db = NoDb
    /\ reqs = NoReqs
    /\ isLoading = FALSE
    /\ formErrors = <<>>
    /\ request = NoRequest

\* useState(() => pollToEditForm(poll))
Mount ==
    /\ pc = "start"
    /\ formData' = pollToEditForm(poll)
    /\ poll' = PollAfterToEditForm(poll)
    /\ pc' = "form"
    /\ last' = "pollToEditForm"
    /\ UNCHANGED <<now, payload, validation, db, reqs, isLoading, formErrors, request>>

AddNewOption ==
    /\ pc = "form"
    /\ Len(formData.options) < MaxOptions
    /\ MaxOrderOf(formData) < MaxNewOrder
    /\ \E optionText \in AddTexts :
          /\ formData' = addNewOption(formData, optionText)
          /\ last' = "addNewOption"
    /\ UNCHANGED <<poll, now, pc, payload, validation, db, reqs, isLoading, formErrors, request>>

RemoveOption ==
    /\ pc = "form"
    /\ \E index \in 0..(Len(formData.options) - 1) :
          /\ formData' = removeOption(formData, index)
          /\ last' = "removeOption"
    /\ UNCHANGED <<poll, now, pc, payload, validation, db, reqs, isLoading, formErrors, request>>

ReorderOptions ==
    /\ pc = "form"
    /\ \E fromIndex, toIndex \in 0..(Len(ActiveOptions(formData)) - 1) :
          /\ formData' = reorderOptions(formData, fromIndex, toIndex)
          /\ last' = "reorderOptions"
    /\ UNCHANGED <<poll, now, pc, payload, validation, db, reqs, isLoading, formErrors, request>>

\* the payload of the save request is built; editing ends here
EditFormToUpdate ==
    /\ pc = "form"
    /\ payload' = editFormToUpdate(formData)
    /\ pc' = "saved"
    /\ last' = "editFormToUpdate"
    /\ UNCHANGED <<poll, formData, now, validation, db, reqs, isLoading, formErrors, request>>

Next == Mount \/ AddNewOption \/ RemoveOption \/ ReorderOptions \/ EditFormToUpdate

Spec == InitWith(SessionPolls) /\ [][Next]_vars

\* the conversions on polls whose own fields vary
NextConv == Mount \/ EditFormToUpdate

ConvSpec == InitWith(ConvPolls) /\ [][NextConv]_vars

\* validateEditPollForm on a form at a time
InitValidate ==
    /\ poll \in {PollWith(<<"a">>, Null, Null, <<TRUE, FALSE, TRUE>>, NullTs, TwoOptions)}
    /\ formData \in ValidateForms
    /\ now = 0
    /\ pc = "form"
    /\ last = NoCall
    /\ payload = NoPayload
    /\ validation = NoValidation
    /\ db = NoDb
    /\ reqs = NoReqs
    /\ isLoading = FALSE
    /\ formErrors = <<>>
    /\ request = NoRequest

Validate ==
    /\ pc = "form"
    /\ validation' = validateEditPollForm(formData, now)
    /\ last' = "validateEditPollForm"
    /\ UNCHANGED <<poll, formData, now, pc, payload, db, reqs, isLoading, formErrors, request>>

\* the clock of new Date()
Tick ==
    /\ now < MaxTime
    /\ now' = now + 1
    /\ last' = NoCall
    /\ UNCHANGED <<poll, formData, pc, payload, validation, db, reqs, isLoading, formErrors, request>>

NextValidate == Validate \/ Tick

ValidateSpec == InitValidate /\ [][NextValidate]_vars

\* forms handed to editFormToUpdate: every combination of id and flags
FlagOptionLists ==
    UNION {
      { [i \in 1..n |-> [id |-> IF hasId[i] THEN i ELSE NoId,
                         option_text |-> PollText(i),
                         option_order |-> i,
                         _isNew |-> new[i],
                         _isDeleted |-> del[i]]] :
          hasId \in [1..n -> BOOLEAN], new \in [1..n -> BOOLEAN],
          del \in [1..n -> BOOLEAN] } :
      n \in 0..MaxFormOptions }

InitUpdate ==
    /\ poll \in {PollWith(<<"a">>, Null, Null, <<TRUE, FALSE, TRUE>>, NullTs, TwoOptions)}
    /\ formData \in {[NoForm EXCEPT !.options = opts] : opts \in FlagOptionLists}
    /\ now = 0
    /\ pc = "form"
    /\ last = NoCall
    /\ payload = NoPayload
    /\ validation = NoValidation
    /\ db = NoDb
    /\ reqs = NoReqs
    /\ isLoading = FALSE
    /\ formErrors = <<>>
    /\ request = NoRequest

\* editFormToUpdate on a form
UpdateSpec == InitUpdate /\ [][EditFormToUpdate]_vars

(***************************************************************************)
(* What the claims speak of, stated without the reducer's own operators.   *)
(***************************************************************************)
Blank(s) == \A k \in 1..Len(s) : IsWhitespace(s[k])

\* t is s without its leading and trailing whitespace
IsTrimOf(t, s) ==
    \E i \in 1..(Len(s) + 1), j \in 0..Len(s) :
       /\ t = SubSeq(s, i, j)
       /\ \A k \in 1..Len(s) : (k < i \/ k > j) => IsWhitespace(s[k])
       /\ t # <<>> => ~IsWhitespace(t[1]) /\ ~IsWhitespace(t[Len(t)])

\* an optional text field after the round trip: null for null or blank
IsOptionalTrimOf(t, s) ==
    IF s = Null \/ Blank(s) THEN t = Null ELSE IsTrimOf(t, s)

\* the sequence s without its k-th element (1-based)
WithoutIndex(s, k) == [i \in 1..(Len(s) - 1) |-> IF i < k THEN s[i] ELSE s[i + 1]]

\* an option without its display order
Unordered(option) == [option EXCEPT !.option_order = 0]

AllUnordered(s) == [i \in 1..Len(s) |-> Unordered(s[i])]

Indices(f) == 1..Len(f.options)

ActiveIndices(f) == {i \in Indices(f) : ~f.options[i]._isDeleted}

\* the non-deleted options are numbered 1, 2, ..., m in array order
Sequential(f) ==
    \A i \in ActiveIndices(f) :
       f.options[i].option_order = Cardinality({j \in ActiveIndices(f) : j <= i})

\* the 0-based positions among the non-deleted options
ActivePositions(f) == 0..(Cardinality(ActiveIndices(f)) - 1)

(***************************************************************************)
(* C1  round trip poll -> form -> update                                   *)
(***************************************************************************)
\* C1 as claimed: after pollToEditForm and then editFormToUpdate, pollUpdate
\* has title, description, category, the three flags and expires_at equal
\* to the values of the poll.
C1_RoundTripEqual ==
    (pc = "saved" /\ last = "editFormToUpdate") =>
       /\ payload.pollUpdate.title = poll.title
       /\ payload.pollUpdate.description = poll.description
       /\ payload.pollUpdate.category = poll.category
       /\ payload.pollUpdate.is_active = poll.is_active
       /\ payload.pollUpdate.allow_multiple_votes = poll.allow_multiple_votes
       /\ payload.pollUpdate.is_anonymous = poll.is_anonymous
       /\ payload.pollUpdate.expires_at = poll.expires_at

\* C1 amended: the round trip keeps the three flags; title, description and
\* category come back without leading and trailing whitespace, a null or
\* blank description or category as null; expires_at comes back null for
\* null and otherwise as the toISOString spelling of the same instant.
C1_RoundTripNormalised ==
    (pc = "saved" /\ last = "editFormToUpdate") =>
       /\ IsTrimOf(payload.pollUpdate.title, poll.title)
       /\ IsOptionalTrimOf(payload.pollUpdate.description, poll.description)
       /\ IsOptionalTrimOf(payload.pollUpdate.category, poll.category)
       /\ payload.pollUpdate.is_active = poll.is_active
       /\ payload.pollUpdate.allow_multiple_votes = poll.allow_multiple_votes
       /\ payload.pollUpdate.is_anonymous = poll.is_anonymous
       /\ (poll.expires_at = NullTs) = (payload.pollUpdate.expires_at = NullTs)
       /\ poll.expires_at # NullTs =>
             /\ payload.pollUpdate.expires_at.ms = poll.expires_at.ms
             /\ payload.pollUpdate.expires_at.fmt = "ms"

\* a poll with an untrimmed title, a blank description and an expiry the
\* store spells with an offset has gone through both conversions
C1_Witness ==
    /\ pc = "saved"
    /\ last = "editFormToUpdate"
    /\ poll.title = <<" ", "a", " ">>
    /\ poll.description = <<" ">>
    /\ poll.category = <<"b">>
    /\ poll.expires_at = [ms |-> 1, fmt |-> "offset"]
    /\ payload.pollUpdate.title = <<"a">>

(***************************************************************************)
(* C2  reorderOptions                                                      *)
(***************************************************************************)
ReorderedAsClaimed(f, g, fromIndex, toIndex) ==
    LET act == ActiveOptions(f)
        res == g.options
    IN  /\ Len(res) = Len(act)
        /\ \A i \in 1..Len(res) : ~res[i]._isDeleted
        /\ Unordered(res[toIndex + 1]) = Unordered(act[fromIndex + 1])
        /\ AllUnordered(WithoutIndex(res, toIndex + 1))
              = AllUnordered(WithoutIndex(act, fromIndex + 1))
        /\ \A i \in 1..Len(res) : res[i].option_order = i

\* C2: for valid positions from and to among the non-deleted options,
\* reorderOptions returns exactly the non-deleted options, the moved one at
\* position to, the others in their old relative order, numbered 1..n.
C2_ReorderOptions ==
    \A fromIndex, toIndex \in ActivePositions(formData) :
       ReorderedAsClaimed(formData, reorderOptions(formData, fromIndex, toIndex),
                          fromIndex, toIndex)

\* reorderOptions has moved options of a form of three
C2_Witness ==
    /\ last = "reorderOptions"
    /\ Len(formData.options) = 3
    /\ formData.options[1].id = 3
    /\ formData.options[2].id = 1
    /\ formData.options[3]._isNew

(***************************************************************************)
(* C3  numbering after insert, remove and reorder                          *)
(***************************************************************************)
\* C3 as claimed: on a form whose non-deleted options are numbered 1..n,
\* addNewOption, removeOption and reorderOptions each leave the non-deleted
\* options numbered 1..m in display order.
C3_AlwaysSequential ==
    Sequential(formData) =>
       /\ \A optionText \in AddTexts : Sequential(addNewOption(formData, optionText))
       /\ \A index \in 0..(Len(formData.options) - 1) :
             Sequential(removeOption(formData, index))
       /\ \A fromIndex, toIndex \in ActivePositions(formData) :
             Sequential(reorderOptions(formData, fromIndex, toIndex))

\* the highest option_order among the non-deleted options is the highest of all
NoDeletedOrderAbove(f) ==
    \A i \in Indices(f) : f.options[i].option_order <= Cardinality(ActiveIndices(f))

\* the option at the index is already marked deleted or is the last non-deleted one
RemovesNothingOrLast(f, index) ==
    \/ f.options[index + 1]._isDeleted
    \/ \A j \in ActiveIndices(f) : j <= index + 1

\* C3 amended: on a form whose non-deleted options are numbered 1..n,
\* reorderOptions always leaves them numbered 1..m; addNewOption does so
\* exactly when no option marked deleted has an option_order above n;
\* removeOption does so exactly when it removes the last non-deleted option
\* (or one already marked deleted), the others keeping their old numbers.
C3_SequentialWhen ==
    Sequential(formData) =>
       /\ \A optionText \in AddTexts :
             Sequential(addNewOption(formData, optionText)) = NoDeletedOrderAbove(formData)
       /\ \A index \in 0..(Len(formData.options) - 1) :
             Sequential(removeOption(formData, index))
                = RemovesNothingOrLast(formData, index)
       /\ \A fromIndex, toIndex \in ActivePositions(formData) :
             Sequential(reorderOptions(formData, fromIndex, toIndex))

\* removeOption has marked the first of three options numbered 1, 2, 3
C3_Witness ==
    /\ last = "removeOption"
    /\ Len(formData.options) = 3
    /\ \A i \in 1..3 : formData.options[i].option_order = i
    /\ formData.options[1]._isDeleted
    /\ ~formData.options[2]._isDeleted
    /\ ~formData.options[3]._isDeleted
    /\ ~Sequential(formData)

(***************************************************************************)
(* C4  delete intent is kept until save                                    *)
(***************************************************************************)
ToDeleteIds(f) ==
    {editFormToUpdate(f).optionUpdates.toDelete[k] :
        k \in 1..Len(editFormToUpdate(f).optionUpdates.toDelete)}

\* C4: an id that editFormToUpdate would delete stays in toDelete after
\* every later addNewOption, removeOption and reorderOptions call.
C4_DeleteIntentKept ==
    [][ToDeleteIds(formData) \subseteq ToDeleteIds(formData')]_vars

(***************************************************************************)
(* C5 - C8  validateEditPollForm                                           *)
(***************************************************************************)
Reported(message) == \E k \in 1..Len(validation.errors) : validation.errors[k] = message

\* the option is not marked deleted and its text has a non-whitespace character
IsActive(option) ==
    /\ ~option._isDeleted
    /\ \E k \in 1..Len(option.option_text) : ~IsWhitespace(option.option_text[k])

ActiveSet(f) == {i \in Indices(f) : IsActive(f.options[i])}

\* a and b are the same text once trimmed, letter case ignored
SameText(a, b) ==
    \E ta, tb \in {SubSeq(a, i, j) : i \in 1..(Len(a) + 1), j \in 0..Len(a)}
                  \cup {SubSeq(b, i, j) : i \in 1..(Len(b) + 1), j \in 0..Len(b)} :
       /\ IsTrimOf(ta, a)
       /\ IsTrimOf(tb, b)
       /\ Len(ta) = Len(tb)
       /\ \A k \in 1..Len(ta) : LowerChar(ta[k]) = LowerChar(tb[k])

TooFewOptions(f) == Cardinality(ActiveSet(f)) < 2

HasDuplicates(f) ==
    \E i, j \in ActiveSet(f) :
       i # j /\ SameText(f.options[i].option_text, f.options[j].option_text)

ExpiryNotInFuture(f, t) == f.expires_at # NoDate /\ ~(f.expires_at > t)

\* C5: 'At least 2 options are required' is reported, and the form is
\* invalid, exactly when fewer than two options are not deleted and not blank.
C5_TwoOptionsRequired ==
    last = "validateEditPollForm" =>
       /\ Reported(TwoOptionsRequired) = TooFewOptions(formData)
       /\ TooFewOptions(formData) => ~validation.isValid

\* three options, one deleted and one blank, have been validated
C5_Witness ==
    /\ last = "validateEditPollForm"
    /\ Reported(TwoOptionsRequired)
    /\ Len(formData.options) = 3
    /\ formData.options[1]._isDeleted /\ formData.options[1].option_text = <<"a">>
    /\ ~formData.options[2]._isDeleted /\ formData.options[2].option_text = <<" ">>
    /\ ~formData.options[3]._isDeleted /\ formData.options[3].option_text = <<"b">>

\* C6: 'Duplicate options are not allowed' is reported exactly when two
\* options that are not deleted and not blank have the same text after
\* trimming, letter case ignored.
C6_NoDuplicates ==
    last = "validateEditPollForm" =>
       Reported(NoDuplicates) = HasDuplicates(formData)

\* 'a' and ' A' have been validated beside a deleted 'a'
C6_Witness ==
    /\ last = "validateEditPollForm"
    /\ Reported(NoDuplicates)
    /\ Len(formData.options) = 3
    /\ formData.options[1]._isDeleted /\ formData.options[1].option_text = <<"a">>
    /\ ~formData.options[2]._isDeleted /\ formData.options[2].option_text = <<"a">>
    /\ ~formData.options[3]._isDeleted /\ formData.options[3].option_text = <<" ", "A">>

\* C7: 'Expiry date must be in the future' is reported exactly when
\* expires_at is set and not strictly later than the current time.
C7_ExpiryInFuture ==
    last = "validateEditPollForm" =>
       Reported(ExpiryInFuture) = ExpiryNotInFuture(formData, now)

\* an expiry equal to the current time has been validated
C7_Witness ==
    /\ last = "validateEditPollForm"
    /\ now = 1
    /\ formData.expires_at = 1
    /\ Reported(ExpiryInFuture)

\* C8: the errors are the messages of the violated rules, each once and
\* none of a satisfied rule, and isValid holds exactly when there is none.
C8_ErrorsAccumulate ==
    last = "validateEditPollForm" =>
       /\ Reported(TitleRequired) = Blank(formData.title)
       /\ Reported(TwoOptionsRequired) = TooFewOptions(formData)
       /\ Reported(NoDuplicates) = HasDuplicates(formData)
       /\ Reported(ExpiryInFuture) = ExpiryNotInFuture(formData, now)
       /\ \A k \in 1..Len(validation.errors) :
             validation.errors[k]
                \in {TitleRequired, TwoOptionsRequired, NoDuplicates, ExpiryInFuture}
       /\ \A k, l \in 1..Len(validation.errors) :
             validation.errors[k] = validation.errors[l] => k = l
       /\ validation.isValid = (validation.errors = <<>>)

\* a form with a blank title, duplicate options and a past expiry has
\* been validated
C8_Witness ==
    /\ last = "validateEditPollForm"
    /\ ~validation.isValid
    /\ validation.errors = <<TitleRequired, NoDuplicates, ExpiryInFuture>>

(***************************************************************************)
(* C9  editFormToUpdate sorts the options into three operations            *)
(***************************************************************************)
\* the k-th smallest element of a set of indices
Kth(S, k) == CHOOSE i \in S : Cardinality({j \in S : j < i}) = k - 1

CreateIndices(f) ==
    {i \in Indices(f) : f.options[i]._isNew /\ ~f.options[i]._isDeleted}

UpdateIndices(f) ==
    {i \in Indices(f) :
        f.options[i].id # NoId /\ ~f.options[i]._isNew /\ ~f.options[i]._isDeleted}

DeleteIndices(f) ==
    {i \in Indices(f) : f.options[i]._isDeleted /\ f.options[i].id # NoId}

\* C9: toCreate holds exactly the options that are new and not deleted,
\* toUpdate exactly those with an id that are neither new nor deleted,
\* toDelete exactly the ids of those marked deleted that have an id, and no
\* option is in two of the lists.
C9_OneOperationEach ==
    last = "editFormToUpdate" =>
       LET u == payload.optionUpdates
           f == formData
       IN  /\ Len(u.toCreate) = Cardinality(CreateIndices(f))
           /\ \A k \in 1..Len(u.toCreate) :
                 /\ u.toCreate[k].option_order = f.options[Kth(CreateIndices(f), k)].option_order
                 /\ IsTrimOf(u.toCreate[k].option_text,
                             f.options[Kth(CreateIndices(f), k)].option_text)
           /\ Len(u.toUpdate) = Cardinality(UpdateIndices(f))
           /\ \A k \in 1..Len(u.toUpdate) :
                 /\ u.toUpdate[k].id = f.options[Kth(UpdateIndices(f), k)].id
                 /\ u.toUpdate[k].option_order = f.options[Kth(UpdateIndices(f), k)].option_order
           /\ Len(u.toDelete) = Cardinality(DeleteIndices(f))
           /\ \A k \in 1..Len(u.toDelete) :
                 u.toDelete[k] = f.options[Kth(DeleteIndices(f), k)].id
           /\ \A k \in 1..Len(u.toUpdate), l \in 1..Len(u.toDelete) :
                 u.toUpdate[k].id # u.toDelete[l]
           /\ \A k \in 1..Len(u.toCreate), l \in 1..Len(u.toUpdate) :
                 u.toCreate[k].option_order # u.toUpdate[l].option_order
           /\ Len(u.toCreate) + Len(u.toUpdate) + Len(u.toDelete) <= Len(f.options)

\* a form with an option to update, one to create and one to delete has
\* been converted
C9_Witness ==
    /\ last = "editFormToUpdate"
    /\ Len(formData.options) = 3
    /\ Len(payload.optionUpdates.toCreate) = 1
    /\ Len(payload.optionUpdates.toUpdate) = 1
    /\ payload.optionUpdates.toDelete = <<3>>

(***************************************************************************)
(* C10  addNewOption                                                       *)
(***************************************************************************)
\* the highest option_order of the form, 0 when it has no options
HighestOrder(f) ==
    IF f.options = <<>> THEN 0
    ELSE CHOOSE m \in {f.options[i].option_order : i \in Indices(f)} :
            \A i \in Indices(f) : f.options[i].option_order <= m

AddedAsClaimed(f, g, optionText) ==
    /\ Len(g.options) = Len(f.options) + 1
    /\ SubSeq(g.options, 1, Len(f.options)) = f.options
    /\ g.options[Len(g.options)] =
          [id |-> NoId,
           option_text |-> optionText,
           option_order |-> HighestOrder(f) + 1,
           _isNew |-> TRUE,
           _isDeleted |-> FALSE]
    /\ [g EXCEPT !.options = f.options] = f

\* C10: addNewOption appends one option, new and not deleted, with the
\* given text and the highest existing option_order plus one (1 when there
\* is none), and changes nothing else of the form.
C10_AddNewOption ==
    \A optionText \in AddTexts :
       AddedAsClaimed(formData, addNewOption(formData, optionText), optionText)

\* addNewOption has appended 'b' to a form whose orders have a gap
C10_Witness ==
    /\ last = "addNewOption"
    /\ Len(formData.options) = 3
    /\ formData.options[1].option_order = 1
    /\ formData.options[2].option_order = 3
    /\ formData.options[2]._isDeleted
    /\ formData.options[3] =
          [id |-> NoId, option_text |-> <<"b">>, option_order |-> 4,
           _isNew |-> TRUE, _isDeleted |-> FALSE]

(***************************************************************************)
(* C11  removeOption: new options leave the array, existing ones are       *)
(*      marked                                                             *)
(***************************************************************************)
\* g is f after the removal of the option at the 0-based index, as claimed
RemovedAsClaimed(f, g, index) ==
    LET old == f.options
        res == g.options
        k   == index + 1
    IN  /\ [g EXCEPT !.options = old] = f
        /\ IF old[k]._isNew
           THEN /\ Len(res) = Len(old) - 1
                /\ \A i \in 1..Len(res) : res[i] = IF i < k THEN old[i] ELSE old[i + 1]
           ELSE /\ Len(res) = Len(old)
                /\ res[k]._isDeleted
                /\ res[k].id = old[k].id
                /\ res[k].option_text = old[k].option_text
                /\ res[k].option_order = old[k].option_order
                /\ res[k]._isNew = old[k]._isNew
                /\ \A i \in 1..Len(old) : i # k => res[i] = old[i]

\* C11: removeOption(form, i) takes a new option out of the array, the
\* others keeping their relative places; an existing option stays in place
\* with its text and order and only gets _isDeleted = TRUE, the length
\* unchanged; every other option and every other form field is unchanged.
C11_RemoveOption ==
    \A index \in 0..(Len(formData.options) - 1) :
       RemovedAsClaimed(formData, removeOption(formData, index), index)

\* removeOption has marked the first persisted option of a form that also
\* holds an added option
C11_Witness ==
    /\ last = "removeOption"
    /\ Len(formData.options) = 3
    /\ formData.options[1]._isDeleted
    /\ ~formData.options[1]._isNew
    /\ ~formData.options[2]._isDeleted
    /\ formData.options[3]._isNew

(***************************************************************************)
(* C12  pollToEditForm: one form option per persisted option, by order     *)
(***************************************************************************)
\* g.options holds each option of p exactly once, with id, text and order
\* kept and both flags FALSE, in ascending option_order
ConvertedAsClaimed(p, g) ==
    LET src == p.poll_options
        res == g.options
    IN  /\ Len(res) = Len(src)
        /\ \A i \in 1..Len(src) :
              Cardinality({j \in 1..Len(res) : res[j].id = src[i].id}) = 1
        /\ \A i \in 1..Len(src), j \in 1..Len(res) :
              res[j].id = src[i].id =>
                 /\ res[j].option_text = src[i].option_text
                 /\ res[j].option_order = src[i].option_order
                 /\ res[j]._isNew = FALSE
                 /\ res[j]._isDeleted = FALSE
        /\ \A i, j \in 1..Len(res) :
              i < j => res[i].option_order <= res[j].option_order

\* C12: pollToEditForm returns one form option per persisted option, in
\* ascending option_order whatever the order of poll.poll_options, each with
\* the option's id, text and order and with _isNew and _isDeleted FALSE.
C12_PollToEditForm ==
    ConvertedAsClaimed(poll, pollToEditForm(poll))

\* pollToEditForm has converted a poll whose options came as orders 2, 3, 1
C12_Witness ==
    /\ last = "pollToEditForm"
    /\ Len(formData.options) = 3
    /\ formData.options[1].id = 3
    /\ formData.options[2].id = 1
    /\ formData.options[3].id = 2
    /\ \A i \in 1..3 : formData.options[i].option_order = i

(***************************************************************************)
(* C13  null optional fields through both conversions                      *)
(***************************************************************************)
\* t is what the claim says editFormToUpdate makes of the form text s of an
\* optional field: its trim, or null when nothing is left
TrimmedOrNull(t, s) ==
    IF Blank(s) THEN t = Null ELSE IsTrimOf(t, s)

\* C13: pollToEditForm gives '' for a null description, '' for a null
\* category and null for a null expires_at; editFormToUpdate trims title,
\* description and category and gives null for a description or category
\* that is empty after the trim; so a null description, category or
\* expires_at of the poll is null again in pollUpdate.
C13_NullOptionalFields ==
    /\ pc # "start" =>
          /\ poll.description = Null => formData.description = <<>>
          /\ poll.category = Null => formData.category = <<>>
          /\ poll.expires_at = NullTs => formData.expires_at = NoDate
    /\ pc = "saved" =>
          /\ IsTrimOf(payload.pollUpdate.title, formData.title)
          /\ TrimmedOrNull(payload.pollUpdate.description, formData.description)
          /\ TrimmedOrNull(payload.pollUpdate.category, formData.category)
          /\ poll.description = Null => payload.pollUpdate.description = Null
          /\ poll.category = Null => payload.pollUpdate.category = Null
          /\ poll.expires_at = NullTs => payload.pollUpdate.expires_at = NullTs

\* a poll without description, category and expiry has gone through both
\* conversions
C13_Witness ==
    /\ pc = "saved"
    /\ last = "editFormToUpdate"
    /\ poll.description = Null
    /\ poll.category = Null
    /\ poll.expires_at = NullTs
    /\ formData.description = <<>>
    /\ payload.pollUpdate.description = Null
    /\ payload.pollUpdate.expires_at = NullTs

(***************************************************************************)
(* The store: tables polls, poll_options and votes with their row level    *)
(* security policies, constraints and triggers.  Every statement runs as   *)
(* the user of the session (auth.uid() = uid).                             *)
(***************************************************************************)
UserIds == {"u1", "u2"}

\* SQL NULL in votes.user_id
NullUser == "NULL"

HasPoll(d, id) == \E p \in d.polls : p.id = id

PollRow(d, id) == CHOOSE p \in d.polls : p.id = id

\* policies "Users can view active polls", "Users can view their own polls"
CanViewPoll(p, uid) == p.is_active \/ p.created_by = uid

\* policies "Users can update their own polls", "Users can delete their own polls"
CanChangePoll(p, uid) == p.created_by = uid

\* policy "Users can view poll options"
CanViewOption(d, o, uid) ==
    \E p \in d.polls : p.id = o.poll_id /\ CanViewPoll(p, uid)

\* policy "Poll creators can manage poll options"
CanManageOption(d, o, uid) ==
    \E p \in d.polls : p.id = o.poll_id /\ p.created_by = uid

\* policies "Users can view vote statistics", "Users can view their own votes"
CanViewVote(d, v, uid) ==
    \/ \E p \in d.polls : p.id = v.poll_id /\ CanViewPoll(p, uid)
    \/ v.user_id = uid

\* policy "Users can vote on active polls"
CanInsertVote(d, v, uid, t) ==
    /\ \E p \in d.polls :
          /\ p.id = v.poll_id
          /\ p.is_active
          /\ (p.expires_at = NoDate \/ p.expires_at > t)
    /\ (v.user_id = uid \/ v.user_id = NullUser)

\* policy "Users can delete their own votes"
CanDeleteVote(v, uid) == v.user_id = uid

\* from('polls').select('*, poll_options(*)').eq('id', id).single()
SelectPoll(d, uid, id) ==
    IF HasPoll(d, id) /\ CanViewPoll(PollRow(d, id), uid)
    THEN [error |-> "none",
          data |-> [id |-> id,
                    title |-> PollRow(d, id).title,
                    created_by |-> PollRow(d, id).created_by,
                    is_active |-> PollRow(d, id).is_active,
                    is_anonymous |-> PollRow(d, id).is_anonymous,
                    allow_multiple_votes |-> PollRow(d, id).allow_multiple_votes,
                    expires_at |-> PollRow(d, id).expires_at,
                    total_votes |-> PollRow(d, id).total_votes,
                    poll_options |-> {o \in d.poll_options :
                                        o.poll_id = id /\ CanViewOption(d, o, uid)}]]
    ELSE [error |-> "PGRST116", data |-> NoPoll]

\* from('votes').select('id').eq('poll_id', id).eq('user_id', userId)
SelectVotesOfUser(d, uid, id, userId) ==
    {v \in d.votes : v.poll_id = id /\ v.user_id = userId /\ CanViewVote(d, v, uid)}

\* from('votes').select('id').eq('poll_option_id', optionId)
SelectVotesOfOption(d, uid, optionId) ==
    {v \in d.votes : v.poll_option_id = optionId /\ CanViewVote(d, v, uid)}

\* from('votes').select('id').eq('poll_id', id)
SelectVotesOfPoll(d, uid, id) ==
    {v \in d.votes : v.poll_id = id /\ CanViewVote(d, v, uid)}

\* UPDATE poll_options SET votes_count = n WHERE id = optionId
SetVotesCount(d, uid, optionId, n) ==
    [d EXCEPT !.poll_options =
        {IF o.id = optionId /\ CanManageOption(d, o, uid)
         THEN [o EXCEPT !.votes_count = n] ELSE o : o \in d.poll_options}]

\* UPDATE polls SET total_votes = n WHERE id = id
SetTotalVotes(d, uid, id, n) ==
    [d EXCEPT !.polls =
        {IF p.id = id /\ CanChangePoll(p, uid)
         THEN [p EXCEPT !.total_votes = n] ELSE p : p \in d.polls}]

\* GREATEST(0, n)
Greatest0(n) == IF n < 0 THEN 0 ELSE n

\* update_vote_counts() for one row: SET votes_count = GREATEST(0, votes_count + by),
\* SET total_votes = GREATEST(0, total_votes + by)
\* The function is not declared SECURITY DEFINER: its updates run as the
\* user whose statement fired the trigger, under the policies of the tables.
UpdateVoteCounts(d, uid, v, by) ==
    [d EXCEPT
       !.poll_options =
          {IF o.id = v.poll_option_id /\ CanManageOption(d, o, uid)
           THEN [o EXCEPT !.votes_count = Greatest0(@ + by)] ELSE o : o \in d.poll_options},
       !.polls =
          {IF p.id = v.poll_id /\ CanChangePoll(p, uid)
           THEN [p EXCEPT !.total_votes = Greatest0(@ + by)] ELSE p : p \in d.polls}]

\* check_poll_voting_eligibility() raises for row v
IsIneligible(d, v, t) ==
    HasPoll(d, v.poll_id) /\
       LET poll_record == PollRow(d, v.poll_id)
       IN  \/ ~poll_record.is_active
           \/ poll_record.expires_at # NoDate /\ poll_record.expires_at < t
           \/ /\ ~poll_record.allow_multiple_votes
              /\ v.user_id # NullUser
              /\ \E w \in d.votes :
                    w.poll_id = v.poll_id /\ w.user_id = v.user_id /\ w.id # v.id

\* the foreign keys of votes and UNIQUE(poll_id, user_id, poll_option_id),
\* under which NULL user ids never collide
BreaksVoteConstraint(d, v) ==
    \/ ~HasPoll(d, v.poll_id)
    \/ ~\E o \in d.poll_options : o.id = v.poll_option_id
    \/ /\ v.user_id # NullUser
       /\ \E w \in d.votes :
             /\ w.poll_id = v.poll_id
             /\ w.user_id = v.user_id
             /\ w.poll_option_id = v.poll_option_id

\* as InsertVoteRow, without the trigger and the policy
InsertVoteRow_Unchecked(d, uid, v, t) ==
    IF BreaksVoteConstraint(d, v)
    THEN [error |-> "failed", db |-> d]
    ELSE [error |-> "none",
          db |-> UpdateVoteCounts([d EXCEPT !.votes = @ \cup {v}], uid, v, 1)]

\* one row of an INSERT INTO votes: the BEFORE trigger, the policy and the
\* constraints, then the row and the AFTER trigger
InsertVoteRow(d, uid, v, t) ==
    IF IsIneligible(d, v, t) \/ ~CanInsertVote(d, v, uid, t) \/ BreaksVoteConstraint(d, v)
    THEN [error |-> "failed", db |-> d]
    ELSE [error |-> "none",
          db |-> UpdateVoteCounts([d EXCEPT !.votes = @ \cup {v}], uid, v, 1)]

RECURSIVE InsertVoteRows(_, _, _, _)
\* rows one after the other; the statement fails as a whole
InsertVoteRows(d, uid, rows, t) ==
    IF rows = <<>> THEN [error |-> "none", db |-> d]
    ELSE LET first == InsertVoteRow(d, uid, Head(rows), t)
         IN  IF first.error # "none" THEN first
             ELSE InsertVoteRows(first.db, uid, Tail(rows), t)

\* from('votes').insert(voteData)
InsertVotes(d, uid, rows, t) ==
    IF InsertVoteRows(d, uid, rows, t).error = "none"
    THEN InsertVoteRows(d, uid, rows, t)
    ELSE [error |-> "failed", db |-> d]

\* from('votes').delete().eq('id', voteId), with the DELETE branch of the trigger
DeleteVote(d, uid, voteId) ==
    LET gone == {v \in d.votes : v.id = voteId /\ CanDeleteVote(v, uid)}
    IN  IF gone = {} THEN d
        ELSE UpdateVoteCounts([d EXCEPT !.votes = @ \ gone], uid,
                              CHOOSE v \in gone : TRUE, -1)

\* as DeletePoll, the options and the votes of the poll left behind
DeletePoll_NoCascade(d, uid, id) ==
    IF HasPoll(d, id) /\ CanChangePoll(PollRow(d, id), uid)
    THEN [d EXCEPT !.polls = {p \in d.polls : p.id # id}]
    ELSE d

\* from('polls').delete().eq('id', id): ON DELETE CASCADE takes the options
\* and the votes of the poll with it
DeletePoll(d, uid, id) ==
    IF HasPoll(d, id) /\ CanChangePoll(PollRow(d, id), uid)
    THEN [polls |-> {p \in d.polls : p.id # id},
          poll_options |-> {o \in d.poll_options : o.poll_id # id},
          votes |-> {v \in d.votes : v.poll_id # id}]
    ELSE d

(***************************************************************************)
(* The API handlers.  Each backend call of a handler is one step; between  *)
(* the steps of a request the steps of the other requests may come.        *)
(* calls, failed and lateWrite record what the request did to the tables:  *)
(* the number of its calls, whether one of them returned an error, and     *)
(* whether it issued a write after that.                                   *)
(***************************************************************************)
formVars == <<poll, formData, pc, last, payload, validation, isLoading, formErrors, request>>

\* the outcomes of a backend call: it answers, or it fails (network, store).
\* pc is "api" in the behaviours where the backend answers every call and
\* "faulty" in those where any call may fail.
Failures == IF pc = "faulty" THEN BOOLEAN ELSE {FALSE}

\* NextResponse.json({ error }, { status })
Respond(q, status, error) ==
    [q EXCEPT !.pc = "done", !.status = status, !.error = error]

\* the request has issued a read, it has got an error back, it has issued a write
Reading(q) == [q EXCEPT !.calls = @ + 1]
Erring(q) == [q EXCEPT !.failed = TRUE]
Writing(q) == [q EXCEPT !.calls = @ + 1, !.lateWrite = @ \/ q.failed]

\* the requests answered before request r comes in
Answered == {x \in Requests : reqs[x].pc = "done"}

\* new Date(poll.expires_at) < new Date()
IsExpired(p, t) == p.expires_at # NoDate /\ p.expires_at < t

StoredPoll == "p1"
Option1 == <<StoredPoll, 1>>
Option2 == <<StoredPoll, 2>>
\* the id of an option of another poll: the first option of the poll that
\* request r1 creates, when it creates one
ForeignOption == <<"p2", 1>>

\* the bodies { optionIds } of the vote requests
VoteBodies ==
    { <<>>, <<Option1>>, <<Option2>>, <<Option1, Option2>>, <<ForeignOption>>,
      <<Option1, ForeignOption>>, <<Option1, Option1>> }

\* voter_ip of a row that holds none
NullIp == "NULL"

\* request.headers.get('x-forwarded-for') || request.headers.get('x-real-ip'):
\* request r1 comes through a proxy that sets the header, r2 carries neither
ClientIp(r) == IF r = "r1" THEN "203.0.113.1" ELSE NullIp

\* optionIds.map(optionId => ({ poll_id, poll_option_id, user_id, voter_ip }));
\* the store gives row k of request r the id <<r, k>>
VoteData(r, q) ==
    [k \in 1..Len(q.optionIds) |->
        [id |-> <<r, k>>,
         poll_id |-> q.id,
         poll_option_id |-> q.optionIds[k],
         user_id |-> IF q.poll.is_anonymous THEN NullUser ELSE q.user,
         voter_ip |-> IF q.poll.is_anonymous THEN ClientIp(r) ELSE NullIp]]

\* as VoteCall, without the check of the user
VoteCall_NoAuth(r) ==
    /\ reqs[r].pc = "idle"
    /\ \E user \in UserIds \cup {NoUser}, optionIds \in VoteBodies :
          LET q == [reqs[r] EXCEPT !.kind = "vote", !.after = Answered, !.user = user,
                                   !.id = StoredPoll, !.optionIds = optionIds]
          IN  reqs' = [reqs EXCEPT ![r] =
                 IF Len(optionIds) = 0
                 THEN Respond(q, 400, "At least one option must be selected")
                 ELSE [q EXCEPT !.pc = "fetchPoll"]]
    /\ UNCHANGED <<db, now, formVars>>

\* POST /api/polls/[id]/vote: getUser() and the parsing of the body
VoteCall(r) ==
    /\ reqs[r].pc = "idle"
    /\ \E user \in UserIds \cup {NoUser}, optionIds \in VoteBodies :
          LET q == [reqs[r] EXCEPT !.kind = "vote", !.after = Answered, !.user = user,
                                   !.id = StoredPoll, !.optionIds = optionIds]
          IN  reqs' = [reqs EXCEPT ![r] =
                 IF user = NoUser THEN Respond(q, 401, "Unauthorized")
                 ELSE IF Len(optionIds) = 0
                      THEN Respond(q, 400, "At least one option must be selected")
                      ELSE [q EXCEPT !.pc = "fetchPoll"]]
    /\ UNCHANGED <<db, now, formVars>>

\* the poll is fetched and its status validated
VoteFetchPoll(r) ==
    /\ reqs[r].kind = "vote"
    /\ reqs[r].pc = "fetchPoll"
    /\ \E fails \in Failures :
          LET q == Reading(reqs[r])
              res == SelectPoll(db, q.user, q.id)
          IN  reqs' = [reqs EXCEPT ![r] =
                 IF fails THEN Respond(Erring(q), 500, "Failed to fetch poll")
                 ELSE IF res.error = "PGRST116"
                      THEN Respond(Erring(q), 404, "Poll not found")
                 ELSE IF ~res.data.is_active
                      THEN Respond(q, 400, "Poll is not active")
                 ELSE IF IsExpired(res.data, now)
                      THEN Respond(q, 400, "Poll has expired")
                 ELSE [q EXCEPT !.pc = "checkVotes", !.poll = res.data]]
    /\ UNCHANGED <<db, now, formVars>>

\* as InvalidOptions, every id taken for an option of the poll
InvalidOptions_None(optionIds, p) == <<>>

\* optionIds.filter(id => !pollOptionIds.includes(id))
InvalidOptions(optionIds, p) ==
    LET pollOptionIds == {o.id : o \in p.poll_options}
    IN  SelectSeq(optionIds, LAMBDA id : id \notin pollOptionIds)

\* the votes of the user are looked up, then the options and the multiple
\* vote rule are checked
VoteCheckVotes(r) ==
    /\ reqs[r].kind = "vote"
    /\ reqs[r].pc = "checkVotes"
    /\ \E fails \in Failures :
          LET q == Reading(reqs[r])
              existingVotes == SelectVotesOfUser(db, q.user, q.id, q.user)
              invalidOptions == InvalidOptions(q.optionIds, q.poll)
          IN  reqs' = [reqs EXCEPT ![r] =
                 IF fails THEN Respond(Erring(q), 500, "Failed to check voting status")
                 ELSE IF Cardinality(existingVotes) > 0
                      THEN Respond(q, 400, "You have already voted in this poll")
                 ELSE IF Len(invalidOptions) > 0
                      THEN Respond(q, 400, "Invalid option selected")
                 ELSE IF ~q.poll.allow_multiple_votes /\ Len(q.optionIds) > 1
                      THEN Respond(q, 400, "This poll only allows one vote per user")
                 ELSE [q EXCEPT !.pc = "insertVotes"]]
    /\ UNCHANGED <<db, now, formVars>>

\* as VoteInsert, going on to the recount when the insert failed
VoteInsert_IgnoresError(r) ==
    /\ reqs[r].kind = "vote"
    /\ reqs[r].pc = "insertVotes"
    /\ \E fails \in Failures :
          LET q == Writing(reqs[r])
              res == InsertVotes(db, q.user, VoteData(r, q), now)
          IN  IF fails \/ res.error # "none"
              THEN /\ reqs' = [reqs EXCEPT ![r] =
                                 [Erring(q) EXCEPT !.pc = "countOption", !.k = 1]]
                   /\ db' = db
              ELSE /\ reqs' = [reqs EXCEPT ![r] = [q EXCEPT !.pc = "countOption", !.k = 1]]
                   /\ db' = res.db
    /\ UNCHANGED <<now, formVars>>

\* the vote rows are inserted
VoteInsert(r) ==
    /\ reqs[r].kind = "vote"
    /\ reqs[r].pc = "insertVotes"
    /\ \E fails \in Failures :
          LET q == Writing(reqs[r])
              res == InsertVotes(db, q.user, VoteData(r, q), now)
          IN  IF fails \/ res.error # "none"
              THEN /\ reqs' = [reqs EXCEPT ![r] =
                                 Respond(Erring(q), 500, "Failed to submit vote")]
                   /\ db' = db
              ELSE /\ reqs' = [reqs EXCEPT ![r] = [q EXCEPT !.pc = "countOption", !.k = 1]]
                   /\ db' = res.db
    /\ UNCHANGED <<now, formVars>>

\* the BEFORE INSERT trigger of the rows of one statement, run on the rows
\* that are committed when it runs (and the earlier rows of the statement)
TriggerRaises(d, rows, t) ==
    \E k \in 1..Len(rows) :
       IsIneligible([d EXCEPT !.votes = @ \cup {rows[j] : j \in 1..(k - 1)}],
                    rows[k], t)

\* one row of an INSERT INTO votes whose BEFORE trigger has run: the policy
\* and the constraints, then the row and the AFTER trigger
WriteVoteRow(d, uid, v, t) ==
    IF ~CanInsertVote(d, v, uid, t) \/ BreaksVoteConstraint(d, v)
    THEN [error |-> "failed", db |-> d]
    ELSE [error |-> "none",
          db |-> UpdateVoteCounts([d EXCEPT !.votes = @ \cup {v}], uid, v, 1)]

RECURSIVE WriteVoteRows(_, _, _, _)
WriteVoteRows(d, uid, rows, t) ==
    IF rows = <<>> THEN [error |-> "none", db |-> d]
    ELSE LET first == WriteVoteRow(d, uid, Head(rows), t)
         IN  IF first.error # "none" THEN first
             ELSE WriteVoteRows(first.db, uid, Tail(rows), t)

\* the rows of the statement are written and committed, or none is
WriteVotes(d, uid, rows, t) ==
    IF WriteVoteRows(d, uid, rows, t).error = "none"
    THEN WriteVoteRows(d, uid, rows, t)
    ELSE [error |-> "failed", db |-> d]

\* the insert of the vote rows as the store runs it beside other
\* transactions, first part: the transaction of the statement has begun and
\* check_poll_voting_eligibility has looked for rows of the user; it sees
\* the rows committed by then
VoteInsertTrigger(r) ==
    /\ reqs[r].kind = "vote"
    /\ reqs[r].pc = "insertVotes"
    /\ \E fails \in Failures :
          LET q == Writing(reqs[r])
          IN  reqs' = [reqs EXCEPT ![r] =
                 IF fails \/ TriggerRaises(db, VoteData(r, q), now)
                 THEN Respond(Erring(q), 500, "Failed to submit vote")
                 ELSE [q EXCEPT !.pc = "writeVotes"]]
    /\ UNCHANGED <<db, now, formVars>>

\* second part: the rows are checked against the policy and the
\* constraints, written and committed
VoteInsertWrite(r) ==
    /\ reqs[r].kind = "vote"
    /\ reqs[r].pc = "writeVotes"
    /\ LET q == reqs[r]
           res == WriteVotes(db, q.user, VoteData(r, q), now)
       IN  IF res.error # "none"
           THEN /\ reqs' = [reqs EXCEPT ![r] =
                              Respond(Erring(q), 500, "Failed to submit vote")]
                /\ db' = db
           ELSE /\ reqs' = [reqs EXCEPT ![r] = [q EXCEPT !.pc = "countOption", !.k = 1]]
                /\ db' = res.db
    /\ UNCHANGED <<now, formVars>>

\* for (const optionId of optionIds): the votes of the option are counted;
\* without data the update of the option is skipped
VoteCountOption(r) ==
    /\ reqs[r].kind = "vote"
    /\ reqs[r].pc = "countOption"
    /\ \E fails \in Failures :
          LET q == Reading(reqs[r])
              voteCount == SelectVotesOfOption(db, q.user, q.optionIds[q.k])
          IN  reqs' = [reqs EXCEPT ![r] =
                 IF fails
                 THEN [Erring(q) EXCEPT !.k = IF q.k < Len(q.optionIds) THEN q.k + 1 ELSE 0,
                                        !.pc = IF q.k < Len(q.optionIds)
                                               THEN "countOption" ELSE "countTotal"]
                 ELSE [q EXCEPT !.count = Cardinality(voteCount), !.pc = "updateOption"]]
    /\ UNCHANGED <<db, now, formVars>>

\* votes_count of the option is set to the number counted; the result of
\* the update is not looked at
VoteUpdateOption(r) ==
    /\ reqs[r].kind = "vote"
    /\ reqs[r].pc = "updateOption"
    /\ \E fails \in Failures :
          LET q == Writing(reqs[r])
              next == [q EXCEPT !.count = NoCount,
                                !.k = IF q.k < Len(q.optionIds) THEN q.k + 1 ELSE 0,
                                !.pc = IF q.k < Len(q.optionIds)
                                       THEN "countOption" ELSE "countTotal"]
          IN  /\ reqs' = [reqs EXCEPT ![r] = IF fails THEN Erring(next) ELSE next]
              /\ db' = IF fails THEN db
                       ELSE SetVotesCount(db, q.user, q.optionIds[q.k], q.count)
    /\ UNCHANGED <<now, formVars>>

\* the votes of the poll are counted
VoteCountTotal(r) ==
    /\ reqs[r].kind = "vote"
    /\ reqs[r].pc = "countTotal"
    /\ \E fails \in Failures :
          LET q == Reading(reqs[r])
              totalVotes == SelectVotesOfPoll(db, q.user, q.id)
          IN  reqs' = [reqs EXCEPT ![r] =
                 IF fails THEN [Erring(q) EXCEPT !.pc = "refetchPoll"]
                 ELSE [q EXCEPT !.count = Cardinality(totalVotes), !.pc = "updateTotal"]]
    /\ UNCHANGED <<db, now, formVars>>

\* total_votes of the poll is set to the number counted
VoteUpdateTotal(r) ==
    /\ reqs[r].kind = "vote"
    /\ reqs[r].pc = "updateTotal"
    /\ \E fails \in Failures :
          LET q == Writing(reqs[r])
              next == [q EXCEPT !.count = NoCount, !.pc = "refetchPoll"]
          IN  /\ reqs' = [reqs EXCEPT ![r] = IF fails THEN Erring(next) ELSE next]
              /\ db' = IF fails THEN db ELSE SetTotalVotes(db, q.user, q.id, q.count)
    /\ UNCHANGED <<now, formVars>>

\* the poll is fetched again for the response
VoteRefetchPoll(r) ==
    /\ reqs[r].kind = "vote"
    /\ reqs[r].pc = "refetchPoll"
    /\ \E fails \in Failures :
          LET q == Reading(reqs[r])
              res == SelectPoll(db, q.user, q.id)
          IN  reqs' = [reqs EXCEPT ![r] =
                 IF fails \/ res.error # "none"
                 THEN Respond(Erring(q), 500,
                              "Vote submitted but failed to fetch updated data")
                 ELSE Respond(q, 200, "")]
    /\ UNCHANGED <<db, now, formVars>>

\* GET /api/polls/[id]: getUser()
GetCall(r) ==
    /\ reqs[r].pc = "idle"
    /\ \E user \in UserIds \cup {NoUser} :
          LET q == [reqs[r] EXCEPT !.kind = "get", !.after = Answered, !.user = user, !.id = StoredPoll]
          IN  reqs' = [reqs EXCEPT ![r] =
                 IF user = NoUser THEN Respond(q, 401, "Unauthorized")
                 ELSE [q EXCEPT !.pc = "fetchPoll"]]
    /\ UNCHANGED <<db, now, formVars>>

\* the poll is fetched with its options
GetFetchPoll(r) ==
    /\ reqs[r].kind = "get"
    /\ reqs[r].pc = "fetchPoll"
    /\ \E fails \in Failures :
          LET q == Reading(reqs[r])
              res == SelectPoll(db, q.user, q.id)
          IN  reqs' = [reqs EXCEPT ![r] =
                 IF fails THEN Respond(Erring(q), 500, "Failed to fetch poll")
                 ELSE IF res.error = "PGRST116"
                      THEN Respond(Erring(q), 404, "Poll not found")
                 ELSE [q EXCEPT !.pc = "checkVotes", !.poll = res.data]]
    /\ UNCHANGED <<db, now, formVars>>

\* the votes of the user are looked up; an error of the lookup is logged
\* and the response goes out with hasVoted false
GetCheckVotes(r) ==
    /\ reqs[r].kind = "get"
    /\ reqs[r].pc = "checkVotes"
    /\ \E fails \in Failures :
          LET q == Reading(reqs[r])
              existingVotes == SelectVotesOfUser(db, q.user, q.id, q.user)
          IN  reqs' = [reqs EXCEPT ![r] =
                 IF fails THEN Respond(Erring(q), 200, "")
                 ELSE [Respond(q, 200, "") EXCEPT
                          !.hasVoted = Cardinality(existingVotes) > 0]]
    /\ UNCHANGED <<db, now, formVars>>

\* gen_random_uuid() of the poll a create request inserts
NewPollId(r) == IF r = "r1" THEN "p2" ELSE "p3"

\* the bodies of the create requests: no title, one option that is not
\* blank, and two good ones without and with an end date
CreateBodies ==
    { [title |-> <<>>, options |-> << <<"x">>, <<"y">> >>, endDate |-> NoDate],
      [title |-> <<"a", "b", "c">>, options |-> << <<"x">>, <<" ">> >>, endDate |-> NoDate],
      [title |-> <<" ", "a", "b", "c">>, options |-> << <<"x">>, <<" ">>, <<"y", " ">> >>,
       endDate |-> NoDate],
      [title |-> <<"a", "b", "c">>, options |-> << <<"x">>, <<"y">> >>, endDate |-> 1] }

\* body.options.filter(option => option.trim().length > 0)
ValidOptions(body) == SelectSeq(body.options, LAMBDA option : Len(Trim(option)) > 0)

\* POST /api/polls: getUser() and the validation of the body
CreateCall(r) ==
    /\ reqs[r].pc = "idle"
    /\ \E user \in UserIds \cup {NoUser}, body \in CreateBodies :
          LET q == [reqs[r] EXCEPT !.kind = "create", !.after = Answered, !.user = user,
                                   !.id = NewPollId(r), !.body = body]
          IN  reqs' = [reqs EXCEPT ![r] =
                 IF user = NoUser THEN Respond(q, 401, "Unauthorized")
                 ELSE IF body.title = <<>> \/ Len(body.options) < 2
                      THEN Respond(q, 400, "Title and at least 2 options are required")
                 ELSE IF Len(ValidOptions(body)) < 2
                      THEN Respond(q, 400, "At least 2 non-empty options are required")
                 ELSE [q EXCEPT !.pc = "insertPoll"]]
    /\ UNCHANGED <<db, now, formVars>>

\* the row of the insert into polls
NewPollRow(q) ==
    [id |-> q.id,
     title |-> Trim(q.body.title),
     created_by |-> q.user,
     is_active |-> TRUE,
     is_anonymous |-> TRUE,
     allow_multiple_votes |-> FALSE,
     expires_at |-> q.body.endDate,
     total_votes |-> 0]

\* CONSTRAINT polls_title_length
TitleTooShort(p) == Len(p.title) < 3

\* polls_title_length and polls_expires_at_future, created_at being NOW()
BreaksPollConstraint(p, t) ==
    \/ TitleTooShort(p)
    \/ p.expires_at # NoDate /\ ~(p.expires_at > t)

\* the poll is inserted
CreateInsertPoll(r) ==
    /\ reqs[r].kind = "create"
    /\ reqs[r].pc = "insertPoll"
    /\ \E fails \in Failures :
          LET q == Writing(reqs[r])
          IN  IF fails \/ BreaksPollConstraint(NewPollRow(q), now)
              THEN /\ reqs' = [reqs EXCEPT ![r] =
                                 Respond(Erring(q), 500, "Failed to create poll")]
                   /\ db' = db
              ELSE /\ reqs' = [reqs EXCEPT ![r] = [q EXCEPT !.pc = "insertOptions"]]
                   /\ db' = [db EXCEPT !.polls = @ \cup {NewPollRow(q)}]
    /\ UNCHANGED <<now, formVars>>

\* validOptions.map((option, index) => ({ ... option_order: index + 1 ... }))
OptionsData(q) ==
    { [id |-> <<q.id, i>>,
       poll_id |-> q.id,
       option_text |-> Trim(ValidOptions(q.body)[i]),
       option_order |-> i,
       votes_count |-> 0] : i \in 1..Len(ValidOptions(q.body)) }

\* the options are inserted; the poll has to be there still and be the user's
CreateInsertOptions(r) ==
    /\ reqs[r].kind = "create"
    /\ reqs[r].pc = "insertOptions"
    /\ \E fails \in Failures :
          LET q == Writing(reqs[r])
          IN  IF fails \/ ~(HasPoll(db, q.id) /\ CanChangePoll(PollRow(db, q.id), q.user))
              THEN /\ reqs' = [reqs EXCEPT ![r] = [Erring(q) EXCEPT !.pc = "cleanUp"]]
                   /\ db' = db
              ELSE /\ reqs' = [reqs EXCEPT ![r] = [q EXCEPT !.pc = "fetchPoll"]]
                   /\ db' = [db EXCEPT !.poll_options = @ \cup OptionsData(q)]
    /\ UNCHANGED <<now, formVars>>

\* "Clean up the poll if options creation failed": the poll is deleted, the
\* result of the delete not looked at
CreateCleanUp(r) ==
    /\ reqs[r].kind = "create"
    /\ reqs[r].pc = "cleanUp"
    /\ \E fails \in Failures :
          LET q == Writing(reqs[r])
          IN  /\ reqs' = [reqs EXCEPT ![r] = Respond(q, 500, "Failed to create poll options")]
              /\ db' = IF fails THEN db ELSE DeletePoll(db, q.user, q.id)
    /\ UNCHANGED <<now, formVars>>

\* the complete poll is fetched for the response
CreateFetchPoll(r) ==
    /\ reqs[r].kind = "create"
    /\ reqs[r].pc = "fetchPoll"
    /\ \E fails \in Failures :
          LET q == Reading(reqs[r])
              res == SelectPoll(db, q.user, q.id)
          IN  reqs' = [reqs EXCEPT ![r] =
                 IF fails \/ res.error # "none"
                 THEN Respond(Erring(q), 500,
                              "Poll created but failed to fetch complete data")
                 ELSE Respond(q, 201, "")]
    /\ UNCHANGED <<db, now, formVars>>

\* the bodies of the update requests: one closes the poll and names the
\* voters, one opens it and hides them
PutBodies ==
    { [title |-> <<" ", "x", "y", "z">>, is_active |-> FALSE,
       is_anonymous |-> FALSE, allow_multiple_votes |-> TRUE, expires_at |-> NoDate],
      [title |-> <<"x", "y", "z">>, is_active |-> TRUE,
       is_anonymous |-> TRUE, allow_multiple_votes |-> FALSE, expires_at |-> NoDate] }

\* PUT /api/polls/[id]: getUser() and the parsing of the body
PutCall(r) ==
    /\ reqs[r].pc = "idle"
    /\ \E user \in UserIds \cup {NoUser}, body \in PutBodies :
          LET q == [reqs[r] EXCEPT !.kind = "put", !.after = Answered, !.user = user,
                                   !.id = StoredPoll, !.body = body]
          IN  reqs' = [reqs EXCEPT ![r] =
                 IF user = NoUser THEN Respond(q, 401, "Unauthorized")
                 ELSE [q EXCEPT !.pc = "fetchCreator"]]
    /\ UNCHANGED <<db, now, formVars>>

\* as FetchCreator, without the check of the creator
FetchCreator_NoCheck(r, kind, next, forbidden) ==
    /\ reqs[r].kind = kind
    /\ reqs[r].pc = "fetchCreator"
    /\ \E fails \in Failures :
          LET q == Reading(reqs[r])
              res == SelectPoll(db, q.user, q.id)
          IN  reqs' = [reqs EXCEPT ![r] =
                 IF fails THEN Respond(Erring(q), 500, "Failed to fetch poll")
                 ELSE IF res.error = "PGRST116"
                      THEN Respond(Erring(q), 404, "Poll not found")
                 ELSE [q EXCEPT !.pc = next]]
    /\ UNCHANGED <<db, now, formVars>>

\* from('polls').select('created_by').eq('id', id).single() and the check
\* of the creator, of PUT and of DELETE
FetchCreator(r, kind, next, forbidden) ==
    /\ reqs[r].kind = kind
    /\ reqs[r].pc = "fetchCreator"
    /\ \E fails \in Failures :
          LET q == Reading(reqs[r])
              res == SelectPoll(db, q.user, q.id)
          IN  reqs' = [reqs EXCEPT ![r] =
                 IF fails THEN Respond(Erring(q), 500, "Failed to fetch poll")
                 ELSE IF res.error = "PGRST116"
                      THEN Respond(Erring(q), 404, "Poll not found")
                 ELSE IF res.data.created_by # q.user
                      THEN Respond(q, 403, forbidden)
                 ELSE [q EXCEPT !.pc = next]]
    /\ UNCHANGED <<db, now, formVars>>

PutFetchCreator(r) ==
    FetchCreator(r, "put", "updatePoll", "Forbidden - You can only edit your own polls")

\* from('polls').update({ ... }).eq('id', id) on the rows the user may update
UpdatePoll(d, uid, id, body) ==
    [d EXCEPT !.polls =
        {IF p.id = id /\ CanChangePoll(p, uid)
         THEN [p EXCEPT !.title = Trim(body.title),
                        !.expires_at = body.expires_at,
                        !.is_active = body.is_active,
                        !.is_anonymous = body.is_anonymous,
                        !.allow_multiple_votes = body.allow_multiple_votes]
         ELSE p : p \in d.polls}]

\* the poll is updated; .single() fails when no row was updated
PutUpdatePoll(r) ==
    /\ reqs[r].kind = "put"
    /\ reqs[r].pc = "updatePoll"
    /\ \E fails \in Failures :
          LET q == Writing(reqs[r])
              updated == UpdatePoll(db, q.user, q.id, q.body)
          IN  IF \/ fails
                 \/ ~(HasPoll(db, q.id) /\ CanChangePoll(PollRow(db, q.id), q.user))
                 \/ TitleTooShort(PollRow(updated, q.id))
              THEN /\ reqs' = [reqs EXCEPT ![r] =
                                 Respond(Erring(q), 500, "Failed to update poll")]
                   /\ db' = db
              ELSE /\ reqs' = [reqs EXCEPT ![r] = Respond(q, 200, "")]
                   /\ db' = updated
    /\ UNCHANGED <<now, formVars>>

\* DELETE /api/polls/[id]: getUser()
DeleteCall(r) ==
    /\ reqs[r].pc = "idle"
    /\ \E user \in UserIds \cup {NoUser} :
          LET q == [reqs[r] EXCEPT !.kind = "delete", !.after = Answered, !.user = user, !.id = StoredPoll]
          IN  reqs' = [reqs EXCEPT ![r] =
                 IF user = NoUser THEN Respond(q, 401, "Unauthorized")
                 ELSE [q EXCEPT !.pc = "fetchCreator"]]
    /\ UNCHANGED <<db, now, formVars>>

DeleteFetchCreator(r) ==
    FetchCreator(r, "delete", "deletePoll", "Forbidden - You can only delete your own polls")

\* the poll is deleted
DeleteDeletePoll(r) ==
    /\ reqs[r].kind = "delete"
    /\ reqs[r].pc = "deletePoll"
    /\ \E fails \in Failures :
          LET q == Writing(reqs[r])
          IN  IF fails
              THEN /\ reqs' = [reqs EXCEPT ![r] =
                                 Respond(Erring(q), 500, "Failed to delete poll")]
                   /\ db' = db
              ELSE /\ reqs' = [reqs EXCEPT ![r] = Respond(q, 200, "")]
                   /\ db' = DeletePoll(db, q.user, q.id)
    /\ UNCHANGED <<now, formVars>>

\* PollService.removeVote(voteId) by a signed-in user
RemoveVote ==
    /\ \E user \in UserIds, v \in db.votes :
          db' = DeleteVote(db, user, v.id)
    /\ UNCHANGED <<reqs, now, formVars>>

(***************************************************************************)
(* The API: one stored poll of user u1 with two options, and the requests  *)
(* of Requests, each served by one handler.                                *)
(***************************************************************************)
StoredOptions ==
    { [id |-> <<StoredPoll, i>>, poll_id |-> StoredPoll, option_text |-> PollText(i),
       option_order |-> i, votes_count |-> 0] : i \in 1..2 }

StoredPollWith(is_active, is_anonymous, allow_multiple_votes, expires_at) ==
    [id |-> StoredPoll, title |-> <<"a", "b", "c">>, created_by |-> "u1",
     is_active |-> is_active, is_anonymous |-> is_anonymous,
     allow_multiple_votes |-> allow_multiple_votes,
     expires_at |-> expires_at, total_votes |-> 0]

\* open polls without an end
OpenPolls ==
    { StoredPollWith(TRUE, n, m, NoDate) : n \in BOOLEAN, m \in BOOLEAN }

\* polls open or closed, without an end or ending at 1
StoredPolls ==
    { StoredPollWith(a, n, m, e) :
        a \in BOOLEAN, n \in BOOLEAN, m \in BOOLEAN, e \in {NoDate, 1} }

InitApi(storedPolls, backend) ==
    /\ poll = PollWith(<<"a">>, Null, Null, <<TRUE, FALSE, TRUE>>, NullTs, TwoOptions)
    /\ formData = NoForm
    /\ pc = backend
    /\ last = NoCall
    /\ payload = NoPayload
    /\ validation = NoValidation
    /\ now = 0
    /\ \E p \in storedPolls :
          db = [polls |-> {p}, poll_options |-> StoredOptions, votes |-> {}]
    /\ reqs = NoReqs
    /\ isLoading = FALSE
    /\ formErrors = <<>>
    /\ request = NoRequest

\* the steps of the vote handler
VoteStep(r) ==
    \/ VoteCall(r)
    \/ VoteFetchPoll(r)
    \/ VoteCheckVotes(r)
    \/ VoteInsert(r)
    \/ VoteCountOption(r)
    \/ VoteUpdateOption(r)
    \/ VoteCountTotal(r)
    \/ VoteUpdateTotal(r)
    \/ VoteRefetchPoll(r)

\* the steps of the vote handler, the insert in its two parts
VoteRaceStep(r) ==
    \/ VoteCall(r)
    \/ VoteFetchPoll(r)
    \/ VoteCheckVotes(r)
    \/ VoteInsertTrigger(r)
    \/ VoteInsertWrite(r)
    \/ VoteCountOption(r)
    \/ VoteUpdateOption(r)
    \/ VoteCountTotal(r)
    \/ VoteUpdateTotal(r)
    \/ VoteRefetchPoll(r)

GetStep(r) == GetCall(r) \/ GetFetchPoll(r) \/ GetCheckVotes(r)

CreateStep(r) ==
    \/ CreateCall(r)
    \/ CreateInsertPoll(r)
    \/ CreateInsertOptions(r)
    \/ CreateCleanUp(r)
    \/ CreateFetchPoll(r)

PutStep(r) == PutCall(r) \/ PutFetchCreator(r) \/ PutUpdatePoll(r)

DeleteStep(r) == DeleteCall(r) \/ DeleteFetchCreator(r) \/ DeleteDeletePoll(r)

\* voting on an open poll and looking at it
NextVote == \E r \in Requests : VoteStep(r) \/ GetStep(r)

VoteSpec == InitApi(OpenPolls, "api") /\ [][NextVote]_vars

\* voting and taking votes back
NextCount ==
    \/ \E r \in Requests : VoteStep(r)
    \/ RemoveVote

CountSpec == InitApi(OpenPolls, "api") /\ [][NextCount]_vars

\* voting while the poll is updated and the clock runs
NextClose ==
    \/ \E r \in Requests : VoteStep(r) \/ PutStep(r)
    \/ Tick

CloseSpec == InitApi(StoredPolls, "api") /\ [][NextClose]_vars

\* every handler, on a backend that may fail
NextApi ==
    \E r \in Requests :
       CreateStep(r) \/ PutStep(r) \/ DeleteStep(r) \/ VoteStep(r) \/ GetStep(r)

ApiSpec == InitApi(StoredPolls, "faulty") /\ [][NextApi]_vars

(***************************************************************************)
(* C14  one vote per user per poll                                         *)
(***************************************************************************)
\* request x is a vote submission that was answered with success
IsSuccessfulVote(x) == reqs[x].kind = "vote" /\ reqs[x].status = 200

\* request y came in after x was answered, from the same user for the same poll
IsLaterBySameUser(x, y) ==
    /\ x \in reqs[y].after
    /\ reqs[y].user = reqs[x].user
    /\ reqs[y].id = reqs[x].id

\* the vote rows request x created
RowsOf(x) == {v \in db.votes : v.id[1] = x}

\* C14: once a vote submission of a user to a poll has succeeded, every
\* later submission of that user to that poll creates no vote row and is
\* answered with status 400, whether the poll is anonymous or not.
C14_OneVotePerUser ==
    \A x, y \in Requests :
       (IsSuccessfulVote(x) /\ reqs[y].kind = "vote" /\ IsLaterBySameUser(x, y)) =>
          /\ RowsOf(y) = {}
          /\ reqs[y].pc = "done" => reqs[y].status = 400

(***************************************************************************)
(* C15  hasVoted of GET /api/polls/[id]                                    *)
(***************************************************************************)
\* C15: a GET of the poll answers hasVoted = TRUE when a vote submission of
\* the same user to that poll had succeeded before the GET came in, and
\* answers it only when a submission of that user has created vote rows,
\* whether the poll is anonymous or not.
C15_HasVoted ==
    \A g \in Requests :
       (reqs[g].kind = "get" /\ reqs[g].status = 200) =>
          /\ (\E x \in Requests : IsSuccessfulVote(x) /\ IsLaterBySameUser(x, g))
                => reqs[g].hasVoted
          /\ reqs[g].hasVoted =>
                \E x \in Requests :
                   /\ reqs[x].kind = "vote"
                   /\ reqs[x].user = reqs[g].user
                   /\ reqs[x].id = reqs[g].id
                   /\ RowsOf(x) # {}

(***************************************************************************)
(* C16  vote counts                                                        *)
(***************************************************************************)
\* no handler is between its first and its last step
NothingInProgress == \A r \in Requests : reqs[r].pc \in {"idle", "done"}

CountsAreConsistent ==
    /\ \A o \in db.poll_options :
          o.votes_count = Cardinality({v \in db.votes : v.poll_option_id = o.id})
    /\ \A p \in db.polls :
          p.total_votes = Cardinality({v \in db.votes : v.poll_id = p.id})

\* C16: whenever no vote submission and no vote deletion is in progress,
\* votes_count of each option is the number of the vote rows of the option
\* and total_votes of each poll is the number of the vote rows of the
\* poll, under every interleaving of submissions and deletions.
C16_CountsConsistent == NothingInProgress => CountsAreConsistent

(***************************************************************************)
(* C17  no vote on a closed poll                                           *)
(***************************************************************************)
\* the poll is inactive, or its expires_at lies in the past
IsClosed(p, t) == ~p.is_active \/ (p.expires_at # NoDate /\ p.expires_at < t)

\* request r fetches the poll in this step and the poll is closed
FetchesClosedPoll(r) ==
    /\ reqs[r].kind = "vote"
    /\ reqs[r].pc = "fetchPoll"
    /\ reqs'[r] # reqs[r]
    /\ \E p \in db.polls : p.id = reqs[r].id /\ IsClosed(p, now)

\* every vote row this step creates belongs to a poll that is open
InsertsOnOpenPollOnly ==
    \A v \in db'.votes \ db.votes :
       \E p \in db.polls : p.id = v.poll_id /\ ~IsClosed(p, now)

\* C17 as claimed: a submission to a closed poll is answered 400 and changes
\* no row, and no vote row is created for a poll closed at the insert.
C17_Rejected400 ==
    [][ /\ \A r \in Requests :
             FetchesClosedPoll(r) =>
                /\ reqs'[r].pc = "done"
                /\ reqs'[r].status = 400
                /\ db' = db
        /\ InsertsOnOpenPollOnly ]_vars

\* C17 amended: a submission to a closed poll changes no row and is
\* answered 400, or 404 when the poll is inactive and the user is not its
\* creator (the store does not show it to them); no vote row is created
\* for a poll closed at the insert, also when the poll was closed after the
\* handler's check.
C17_Rejected ==
    [][ /\ \A r \in Requests :
             FetchesClosedPoll(r) =>
                /\ reqs'[r].pc = "done"
                /\ reqs'[r].status =
                      IF \E p \in db.polls :
                            /\ p.id = reqs[r].id
                            /\ ~p.is_active
                            /\ p.created_by # reqs[r].user
                      THEN 404 ELSE 400
                /\ db' = db
        /\ InsertsOnOpenPollOnly ]_vars

\* a submission found the poll open, the poll was closed by an update, and
\* the insert of the submission failed
C17_Witness ==
    \E r \in Requests :
       /\ reqs[r].kind = "vote"
       /\ reqs[r].poll # NoPoll
       /\ reqs[r].status = 500
       /\ reqs[r].error = "Failed to submit vote"
       /\ \E p \in db.polls : p.id = reqs[r].id /\ ~p.is_active
       /\ db.votes = {}

(***************************************************************************)
(* C18  no session, no access                                              *)
(***************************************************************************)
ChangingKinds == {"create", "put", "delete", "vote"}

\* C18: a request to create, update or delete a poll or to submit a vote
\* that carries no authenticated user is answered 401 and has made no call
\* on the tables polls, poll_options and votes.
C18_Unauthorized ==
    \A r \in Requests :
       (reqs[r].kind \in ChangingKinds /\ reqs[r].user = NoUser) =>
          /\ reqs[r].pc = "done"
          /\ reqs[r].status = 401
          /\ reqs[r].calls = 0
          /\ RowsOf(r) = {}

\* a vote submission and a deletion without a user have been answered
C18_Witness ==
    \E x, y \in Requests :
       /\ reqs[x].kind = "vote" /\ reqs[x].user = NoUser /\ reqs[x].status = 401
       /\ reqs[y].kind = "delete" /\ reqs[y].user = NoUser /\ reqs[y].status = 401

(***************************************************************************)
(* C19  only the creator changes a poll                                    *)
(***************************************************************************)
\* request r, a PUT or DELETE of a user who is not the creator of the poll,
\* looks the creator up in this step
FetchesPollOfOther(r) ==
    /\ reqs[r].kind \in {"put", "delete"}
    /\ reqs[r].pc = "fetchCreator"
    /\ reqs'[r] # reqs[r]
    /\ \E p \in db.polls : p.id = reqs[r].id /\ p.created_by # reqs[r].user

\* a PUT or DELETE changes rows only when its user is the creator of the poll
ChangesOwnPollOnly ==
    \A r \in Requests :
       (reqs[r].kind \in {"put", "delete"} /\ reqs'[r] # reqs[r] /\ db' # db) =>
          \E p \in db.polls : p.id = reqs[r].id /\ p.created_by = reqs[r].user

\* C19 as claimed: a PUT or DELETE of a user who is not the creator is
\* answered 403 (500 when the backend call fails) and changes no row; the
\* handlers change a poll only for its creator.
C19_Forbidden403 ==
    [][ /\ \A r \in Requests :
             FetchesPollOfOther(r) =>
                /\ reqs'[r].pc = "done"
                /\ reqs'[r].status \in {403, 500}
                /\ db' = db
        /\ ChangesOwnPollOnly ]_vars

\* C19 amended: a PUT or DELETE of a user who is not the creator changes no
\* row and is answered 403 when the poll is active and 404 when it is
\* inactive (the store does not show it to that user), 500 when the
\* backend call fails; the handlers change a poll only for its creator.
C19_Forbidden ==
    [][ /\ \A r \in Requests :
             FetchesPollOfOther(r) =>
                /\ reqs'[r].pc = "done"
                /\ reqs'[r].status \in
                      {IF \E p \in db.polls : p.id = reqs[r].id /\ p.is_active
                       THEN 403 ELSE 404, 500}
                /\ db' = db
        /\ ChangesOwnPollOnly ]_vars

\* u2 was refused the update of the poll of u1, which is as it was
C19_Witness ==
    \E r \in Requests :
       /\ reqs[r].kind = "put"
       /\ reqs[r].user = "u2"
       /\ reqs[r].status = 403
       /\ \E p \in db.polls :
             p.id = StoredPoll /\ p.created_by = "u1" /\ p.title = <<"a", "b", "c">>

(***************************************************************************)
(* C20  failures of backend calls                                          *)
(***************************************************************************)
\* a call of request r returns an error in this step
CallFails(r) == reqs'[r].failed /\ ~reqs[r].failed

\* request r issues a write in this step, after a call of it has failed
WritesAfterFailure(r) == reqs'[r].lateWrite /\ ~reqs[r].lateWrite

AnswersError(r) == reqs'[r].pc = "done" /\ reqs'[r].status >= 400

\* C20 as claimed: when a call of a request fails the handler answers with
\* an error status at once, and no request writes after a failed call.
C20_NoCompensation ==
    [][ \A r \in Requests :
           /\ CallFails(r) => AnswersError(r)
           /\ ~WritesAfterFailure(r) ]_vars

\* the steps of the vote handler after its insert: the recount
RecountSteps == {"countOption", "updateOption", "countTotal", "updateTotal"}

\* C20 amended: when a call of a request fails the handler answers with an
\* error status at once and writes nothing more, but for three cases:
\* POST /api/polls goes on to delete the poll it inserted when the insert
\* of the options fails, and then answers 500; the vote handler ignores
\* the failures of its recount and goes on with the writes that remain;
\* GET /api/polls/[id] ignores the failure of the vote lookup and answers
\* 200 with hasVoted false.
C20_CompensationCases ==
    [][ \A r \in Requests :
           /\ CallFails(r) =>
                 \/ AnswersError(r)
                 \/ /\ reqs[r].kind = "create"
                    /\ reqs[r].pc = "insertOptions"
                    /\ reqs'[r].pc = "cleanUp"
                 \/ reqs[r].kind = "vote" /\ reqs[r].pc \in RecountSteps
                 \/ /\ reqs[r].kind = "get"
                    /\ reqs[r].pc = "checkVotes"
                    /\ reqs'[r].status = 200
                    /\ ~reqs'[r].hasVoted
           /\ WritesAfterFailure(r) =>
                 \/ /\ reqs[r].kind = "create"
                    /\ reqs[r].pc = "cleanUp"
                    /\ reqs'[r].status = 500
                 \/ reqs[r].kind = "vote" /\ reqs[r].pc \in RecountSteps ]_vars

\* the insert of the options failed and the poll was deleted again
C20_Witness ==
    \E r \in Requests :
       /\ reqs[r].kind = "create"
       /\ reqs[r].failed
       /\ reqs[r].lateWrite
       /\ reqs[r].status = 500
       /\ ~HasPoll(db, reqs[r].id)

(***************************************************************************)
(* C21  cascading delete                                                   *)
(***************************************************************************)
PollIdsInStore == {p.id : p \in db.polls}

OptionIdsInStore == {o.id : o \in db.poll_options}

\* C21: every option row references a poll that exists and every vote row
\* references a poll and an option that exist; so once a poll is deleted
\* no option and no vote of it is left.
C21_CascadingDelete ==
    /\ \A o \in db.poll_options : o.poll_id \in PollIdsInStore
    /\ \A v \in db.votes :
          /\ v.poll_id \in PollIdsInStore
          /\ v.poll_option_id \in OptionIdsInStore

\* the poll was deleted after a vote on it had succeeded, and its options
\* and votes are gone with it
C21_Witness ==
    \E x, y \in Requests :
       /\ IsSuccessfulVote(x)
       /\ reqs[y].kind = "delete"
       /\ reqs[y].status = 200
       /\ x \in reqs[y].after
       /\ StoredPoll \notin PollIdsInStore
       /\ db.votes = {}
       /\ \A o \in db.poll_options : o.poll_id # StoredPoll


(***************************************************************************)
(* The EditPollForm component: the form state, the loading flag, the       *)
(* displayed errors and the fetch of handleSubmit.                         *)
(***************************************************************************)
\* the values typed into the title field and into an option field
TypedTitles == { <<" ">>, <<"b">> }
TypedTexts == { <<>>, <<"a">> }

\* the first n options of a poll, in the order of creation
FirstOptions(n) ==
    [i \in 1..n |-> [id |-> i, option_text |-> PollText(i),
                     option_order |-> i, votes_count |-> 0]]

\* the polls the form is opened on: at least two options, as created, with
\* no expiry or one that has passed
FormPolls ==
    { PollWith(<<"a">>, Null, Null, <<TRUE, FALSE, TRUE>>, e, FirstOptions(n)) :
        e \in {NullTs, [ms |-> 0, fmt |-> "Z"]}, n \in 2..MaxPollOptions }

\* newOptions[index] = { ...newOptions[index], option_text: value }
handleOptionChange(f, index, value) ==
    [f EXCEPT !.options[index + 1].option_text = value]

\* handleRemoveOption, on the index the options list passes
handleRemoveOption(f, index) == removeOption(f, index)

\* onChange of the title field
HandleTitleChange ==
    /\ pc \in {"form", "fetch"}
    /\ \E value \in TypedTitles :
          /\ value # formData.title
          /\ formData' = [formData EXCEPT !.title = value]
    /\ UNCHANGED <<poll, now, pc, last, payload, validation, db, reqs, isLoading, formErrors, request>>

\* onClick of Add Option
HandleAddOption ==
    /\ pc \in {"form", "fetch"}
    /\ Len(formData.options) < MaxOptions
    /\ MaxOrderOf(formData) < MaxNewOrder
    /\ formData' = addNewOption(formData, <<>>)
    /\ last' = "addNewOption"
    /\ UNCHANGED <<poll, now, pc, payload, validation, db, reqs, isLoading, formErrors, request>>

\* onClick of the X of the option displayed at index; the button is shown
\* when activeOptions.length > 2
HandleRemoveOption ==
    /\ pc \in {"form", "fetch"}
    /\ Len(ActiveOptions(formData)) > 2
    /\ \E index \in 0..(Len(ActiveOptions(formData)) - 1) :
          formData' = handleRemoveOption(formData, index)
    /\ last' = "removeOption"
    /\ UNCHANGED <<poll, now, pc, payload, validation, db, reqs, isLoading, formErrors, request>>

\* onChange of the field of the option displayed at index
HandleOptionChange ==
    /\ pc \in {"form", "fetch"}
    /\ \E index \in 0..(Len(ActiveOptions(formData)) - 1), value \in TypedTexts :
          /\ formData' = handleOptionChange(formData, index, value)
          /\ formData' # formData
    /\ UNCHANGED <<poll, now, pc, last, payload, validation, db, reqs, isLoading, formErrors, request>>

\* fetch(`/api/polls/${poll.id}`, { method: 'PATCH', body: ... })
RequestOf(f) ==
    [method |-> "PATCH", body |-> editFormToUpdate(f)]

\* as handleSubmit, the return after a failed validation left out
handleSubmit_NoReturn(f, t) ==
    [errors |-> validateEditPollForm(f, t).errors,
     isLoading |-> TRUE,
     request |-> RequestOf(f),
     pc |-> "fetch"]

\* handleSubmit up to the await of fetch, on the form f at time t:
\* setIsLoading(true), setErrors([]), then either the errors of the
\* validation and the return, or the fetch
handleSubmit(f, t) ==
    IF ~validateEditPollForm(f, t).isValid
    THEN [errors |-> validateEditPollForm(f, t).errors,
          isLoading |-> FALSE,
          request |-> NoRequest,
          pc |-> "form"]
    ELSE [errors |-> <<>>,
          isLoading |-> TRUE,
          request |-> RequestOf(f),
          pc |-> "fetch"]

\* the submit button is disabled while isLoading and the title field is
\* required; validation, pollUpdate and optionUpdates are locals
HandleSubmit ==
    /\ pc = "form"
    /\ ~isLoading
    /\ formData.title # <<>>
    /\ formErrors' = handleSubmit(formData, now).errors
    /\ isLoading' = handleSubmit(formData, now).isLoading
    /\ request' = handleSubmit(formData, now).request
    /\ pc' = handleSubmit(formData, now).pc
    /\ last' = IF pc' = "fetch" THEN "editFormToUpdate" ELSE "validateEditPollForm"
    /\ UNCHANGED <<poll, formData, now, payload, validation, db, reqs>>

\* how the fetch ends: response.ok, a response with or without data.error,
\* or a rejected promise
FetchOutcomes == {"ok", "error", "noError", "rejected"}

FailedToUpdate == "Failed to update poll"

\* err.message of what the try block throws
ErrorMessageOf(outcome) ==
    IF outcome = "error" THEN "data.error" ELSE FailedToUpdate

\* handleSubmit from the await of fetch to its end: catch and finally
FetchSettles ==
    /\ pc = "fetch"
    /\ \E outcome \in FetchOutcomes :
          formErrors' = IF outcome = "ok" THEN formErrors
                        ELSE <<ErrorMessageOf(outcome)>>
    /\ isLoading' = FALSE
    /\ request' = NoRequest
    /\ pc' = "form"
    /\ UNCHANGED <<poll, formData, now, last, payload, validation, db, reqs>>

NextForm ==
    \/ Mount
    \/ HandleTitleChange
    \/ HandleAddOption
    \/ HandleRemoveOption
    \/ HandleOptionChange
    \/ HandleSubmit
    \/ FetchSettles

FormSpec == InitWith(FormPolls) /\ [][NextForm]_vars

(***************************************************************************)
(* C22                                                                     *)
(***************************************************************************)
\* a step of handleSubmit up to its return or its await: it is taken with
\* nothing in flight, calls validateEditPollForm and, for a valid form,
\* editFormToUpdate, and leaves the form data alone
IsSubmitStep ==
    /\ pc = "form"
    /\ formData' = formData
    /\ last' \in {"validateEditPollForm", "editFormToUpdate"}

\* a request goes out
SendsRequest == request' # request /\ request'.method = "PATCH"

SubmitsAsClaimed ==
    /\ SendsRequest => /\ validateEditPollForm(formData, now).isValid
                       /\ request'.body = editFormToUpdate(formData)
    /\ (IsSubmitStep /\ ~validateEditPollForm(formData, now).isValid) =>
          /\ ~SendsRequest
          /\ request' = NoRequest
          /\ formErrors' = validateEditPollForm(formData, now).errors
          /\ isLoading' = FALSE

\* C22: a poll-update request is sent only for a form that
\* validateEditPollForm finds valid; when the validation fails no request is
\* sent and its messages become the displayed errors; and whenever the
\* submit handler is not awaiting its fetch the loading flag is false.
C22_ValidationPrecedesSubmission ==
    /\ [][SubmitsAsClaimed]_vars
    /\ [](pc # "fetch" => ~isLoading)

\* a submission of an invalid form has been turned down: its messages are
\* displayed, nothing is in flight and the form is not loading
C22_Witness ==
    /\ pc = "form"
    /\ last = "validateEditPollForm"
    /\ formErrors # <<>>
    /\ formErrors = validateEditPollForm(formData, now).errors
    /\ ~isLoading
    /\ request = NoRequest

(***************************************************************************)
(* C26                                                                     *)
(***************************************************************************)
IsShown(option) == option._isDeleted = FALSE
IsHidden(option) == option._isDeleted = TRUE

\* the options the form lists, and the ones it does not
ShownOptions(f) == SelectSeq(f.options, IsShown)
HiddenOptions(f) == SelectSeq(f.options, IsHidden)

\* g is f with the text of the option shown at position i (0-based) set
EditsShownOption(f, g, i, value) ==
    /\ Len(ShownOptions(g)) = Len(ShownOptions(f))
    /\ \A k \in 1..Len(ShownOptions(f)) :
          ShownOptions(g)[k] =
             IF k = i + 1
             THEN [ShownOptions(f)[k] EXCEPT !.option_text = value]
             ELSE ShownOptions(f)[k]
    /\ HiddenOptions(g) = HiddenOptions(f)

\* g is f with the option shown at position i (0-based) no longer shown
RemovesShownOption(f, g, i) ==
    /\ Len(ShownOptions(g)) = Len(ShownOptions(f)) - 1
    /\ \A k \in 1..Len(ShownOptions(g)) :
          ShownOptions(g)[k] =
             IF k < i + 1 THEN ShownOptions(f)[k] ELSE ShownOptions(f)[k + 1]
    /\ \A k \in 1..Len(HiddenOptions(f)) :
          \E j \in 1..Len(HiddenOptions(g)) : HiddenOptions(g)[j] = HiddenOptions(f)[k]

\* C26: in every state of the open form, typing into the option shown at
\* position i changes the text of that option and nothing else, and the
\* remove button of the option shown at position i takes that option, and
\* no other, out of the list.
C26_DisplayedOptionChanged ==
    pc \in {"form", "fetch"} =>
       \A i \in 0..(Len(ShownOptions(formData)) - 1) :
          /\ \A value \in TypedTexts :
                EditsShownOption(formData, handleOptionChange(formData, i, value), i, value)
          /\ Len(ShownOptions(formData)) > 2 =>
                RemovesShownOption(formData, handleRemoveOption(formData, i), i)

(***************************************************************************)
(* C23  votes only for options of the poll                                 *)
(***************************************************************************)
\* the option with this id is an option of the poll with this id
IsOptionOf(optionId, pollId) ==
    \E o \in db.poll_options : o.id = optionId /\ o.poll_id = pollId

\* request r names an id that is not an option of the poll it votes on
\* (the id of option i of poll p is <<p, i>>, whether or not it is stored)
NamesForeignOption(r) ==
    /\ reqs[r].kind = "vote"
    /\ \E k \in 1..Len(reqs[r].optionIds) :
          reqs[r].optionIds[k][1] # reqs[r].id

\* the handler of r got as far as the check of the options: the user is
\* known, the poll was found open, and the look-up of earlier votes
\* answered and found none
ReachedOptionCheck(r) ==
    /\ reqs[r].pc = "done"
    /\ reqs[r].poll # NoPoll
    /\ ~reqs[r].failed
    /\ reqs[r].error # "You have already voted in this poll"

IsSingleChoice(pollId) ==
    \E p \in db.polls : p.id = pollId /\ ~p.allow_multiple_votes

\* the vote rows the submissions of a user have created in a poll
RowsOfUserIn(user, pollId) ==
    {v \in db.votes : v.poll_id = pollId /\ reqs[v.id[1]].user = user}

\* a submission of more than one option to a single-choice poll is turned
\* down: it has no row, and it is answered 400 when it is answered
ManyOptionsRejected ==
    \A r \in Requests :
       (reqs[r].kind = "vote" /\ Len(reqs[r].optionIds) > 1 /\ IsSingleChoice(reqs[r].id)) =>
          /\ \A v \in db.votes : v.id[1] # r
          /\ (reqs[r].pc = "done" /\ reqs[r].user # NoUser) => reqs[r].status = 400

\* no user has more than one vote row in a single-choice poll
OneRowPerUser ==
    \A p \in db.polls, user \in UserIds :
       ~p.allow_multiple_votes => Cardinality(RowsOfUserIn(user, p.id)) <= 1

\* a submission has at most one row per option
OneRowPerOption ==
    \A v, w \in db.votes :
       (v.id[1] = w.id[1] /\ v.poll_option_id = w.poll_option_id) => v = w

\* C24: a submission of more than one option to a poll with
\* allow_multiple_votes = false is answered 400 and creates no vote row; no
\* user has more than one vote row in such a poll; and in any poll a
\* submission has at most one vote row per option.
C24_SingleChoice ==
    /\ ManyOptionsRejected
    /\ OneRowPerUser
    /\ OneRowPerOption

(***************************************************************************)
(* C25  anonymity of the vote rows                                         *)
(***************************************************************************)
\* the vote rows this step creates
CreatedVotes == db'.votes \ db.votes

\* the row is stored as the poll it is created for asks: without the user
\* when the poll is anonymous, with the submitter and without the address
\* when it is not
StoredAsThePollAsks(v) ==
    \A p \in db.polls :
       p.id = v.poll_id =>
          IF p.is_anonymous
          THEN v.user_id = NullUser
          ELSE v.user_id = reqs[v.id[1]].user /\ v.voter_ip = NullIp

\* C25: every vote row the vote handler creates for a poll that is
\* anonymous holds no user id, and every vote row it creates for a poll that
\* is not anonymous holds the id of the submitter and no address.
C25_Anonymity == [][\A v \in CreatedVotes : StoredAsThePollAsks(v)]_vars

(***************************************************************************)
(* C27  concurrent submissions of one user                                 *)
(***************************************************************************)
\* vote submissions whose inserts run beside each other in the store
NextRace == \E r \in Requests : VoteRaceStep(r)

RaceSpec == InitApi(OpenPolls, "api") /\ [][NextRace]_vars

\* x and y are submissions of one user to one poll, neither answered before
\* the other came in
AreConcurrentSubmissions(x, y) ==
    /\ x # y
    /\ reqs[x].kind = "vote"
    /\ reqs[y].kind = "vote"
    /\ reqs[x].user = reqs[y].user
    /\ reqs[x].user # NoUser
    /\ reqs[x].id = reqs[y].id
    /\ x \notin reqs[y].after
    /\ y \notin reqs[x].after

\* the poll with this id is stored, names its voters and takes one option
\* per user
IsNamedSingleChoice(pollId) ==
    \E p \in db.polls :
       p.id = pollId /\ ~p.is_anonymous /\ ~p.allow_multiple_votes

\* C27: of two concurrent vote submissions of one user to a poll that is
\* not anonymous and has allow_multiple_votes = false, at most one has
\* created a vote row.
C27_AtMostOneSucceeds ==
    \A x, y \in Requests :
       (AreConcurrentSubmissions(x, y) /\ IsNamedSingleChoice(reqs[x].id)) =>
          ~(\E v, w \in db.votes : v.id[1] = x /\ w.id[1] = y)

(***************************************************************************)
(* C28  POST /api/polls leaves no poll without its options                 *)
(***************************************************************************)
\* request r is a create request that has been answered
IsFinishedCreate(r) == reqs[r].kind = "create" /\ reqs[r].pc = "done"

\* the rows request r has left in the store
PollsOfCreate(r) == {p \in db.polls : p.id = reqs[r].id}
OptionsOfCreate(r) == {o \in db.poll_options : o.poll_id = reqs[r].id}

IsBlank(text) == \A i \in 1..Len(text) : text[i] = " "

\* the submitted options that are not blank, in the order submitted
NonEmptyOptions(r) == SelectSeq(reqs[r].body.options, LAMBDA text : ~IsBlank(text))

\* the poll of r, when stored, has two options or more
NoPollShortOfOptions(r) ==
    PollsOfCreate(r) # {} => Cardinality(OptionsOfCreate(r)) >= 2

\* a request answered 400 has stored nothing
RejectedStoresNothing(r) ==
    reqs[r].status = 400 => PollsOfCreate(r) = {} /\ OptionsOfCreate(r) = {}

\* a request answered 201 has stored its options that are not blank,
\* numbered from 1 in the order submitted, with no votes
CreatedStoresOptions(r) ==
    reqs[r].status = 201 =>
       /\ Cardinality(PollsOfCreate(r)) = 1
       /\ Cardinality(OptionsOfCreate(r)) = Len(NonEmptyOptions(r))
       /\ \A i \in 1..Len(NonEmptyOptions(r)) :
             \E o \in OptionsOfCreate(r) :
                /\ o.option_order = i
                /\ o.option_text = Trim(NonEmptyOptions(r)[i])
                /\ o.votes_count = 0

\* C28: once a POST /api/polls request is answered, whatever the outcome,
\* the store holds no poll of that request with fewer than two options; a
\* request answered 400 has inserted nothing; a successful one has stored
\* its non-empty options numbered 1..n in the order submitted with zero
\* vote counts.
C28_NoPollWithoutOptions ==
    \A r \in Requests :
       IsFinishedCreate(r) =>
          /\ NoPollShortOfOptions(r)
          /\ RejectedStoresNothing(r)
          /\ CreatedStoresOptions(r)

(***************************************************************************)
(* C29  the orders of the options to create and to update                  *)
(***************************************************************************)
\* the option_order values editFormToUpdate hands on for creation and for
\* update, one after the other
OrdersToStore(f) ==
    LET updates == editFormToUpdate(f).optionUpdates
        entries == updates.toCreate \o updates.toUpdate
    IN  [i \in 1..Len(entries) |-> entries[i].option_order]

\* C29: in every state of the form reached from pollToEditForm by
\* addNewOption, removeOption and reorderOptions, the options that
\* editFormToUpdate would create or update have positive option_order
\* values, no two of them the same.
C29_DistinctOrders ==
    pc \in {"form", "saved"} =>
       LET orders == OrdersToStore(formData)
       IN  /\ \A i \in 1..Len(orders) : orders[i] > 0
           /\ \A i, j \in 1..Len(orders) : i # j => orders[i] # orders[j]

\* a form with an option to create and two to update, the added option
\* moved to the first place by reorderOptions
C29_Witness ==
    /\ pc = "form"
    /\ last = "reorderOptions"
    /\ Len(editFormToUpdate(formData).optionUpdates.toCreate) >= 1
    /\ Len(editFormToUpdate(formData).optionUpdates.toUpdate) >= 2
    /\ \E i \in 1..Len(formData.options) :
          formData.options[i]._isNew /\ formData.options[i].option_order = 1

(***************************************************************************)
(* C30  the functions leave their arguments alone                          *)
(***************************************************************************)
\* the functions of poll-edit.ts
EditFormFunctions ==
    {"pollToEditForm", "editFormToUpdate", "addNewOption", "removeOption",
     "reorderOptions", "validateEditPollForm"}

\* C30: no call of pollToEditForm, editFormToUpdate, addNewOption,
\* removeOption, reorderOptions or validateEditPollForm changes the poll
\* object of the caller, the order and the content of its options array
\* included.
C30_ArgumentsUnchanged ==
    [][last' \in EditFormFunctions => poll' = poll]_vars

====
